---- MODULE Spec2Model ----
(***************************************************************************)
(* Sprint tracker of rhoai-jira: the walk over the cached issues, the      *)
(* changelog resolution, the replay of the resolved changelog into         *)
(* membership windows and pair metadata, and the bucketed aggregation.     *)
(*                                                                         *)
(* Text is a sequence of symbols: "," and " " are the separator and the    *)
(* white space, any other symbol is a run of characters that holds neither *)
(* (a word).  A time is [abs, off]: seconds on the absolute time line and  *)
(* the zone offset it was written with.                                    *)
(***************************************************************************)
EXTENDS Integers, Sequences, FiniteSets, TLC

VARIABLES
    intervalStr,    \* the -interval flag
    sprintFilter,   \* the -sprint-filter flag ("" is <<>>)
    intervalDur,    \* result of parseInterval
    pc,             \* position of process()
    walkPos,        \* files the walk has entered; the callback is in file walkPos
    nItems,         \* change items replayed so far in the run
    sprintWindows,  \* map[SprintKey][]WindowSpan
    sprintMeta,     \* map[SprintKey]SprintMeta
    storyPoints,    \* map[string]float64
    statuses,       \* map[string]string
    counts,         \* map[key]map[string]struct{}
    totalPoints,    \* map[key]float64
    statusCounts,   \* map[key]map[string]int
    now,            \* time.Now() taken after the walk
    cache,          \* the issue files and changelog files of the directory
    changelog,      \* the changelog the last callback resolved and replayed
    report,         \* the rows the file named by -out has received
    sinkError,      \* a write to the sink has failed
    out,            \* the -out flag ("" is <<>>)
    debugLog,       \* the -debug flag
    stdout,         \* the lines standard output has received
    loopW,          \* the window w of the bucket walk
    cursor,         \* the loop variable t of the bucket walk
    loopLabels,     \* the timestamp labels the bucket walk has produced
    keysIn,         \* the keys as they were given to SortNumerically
    inList,         \* the slice SortNumerically sorts in place
    getURL,         \* the url of the call of DoGetWithRetry
    attempt,        \* the loop variable of DoGetWithRetry
    responses,      \* what http.DefaultClient.Do gave in this call, in order
    ret,            \* what DoGetWithRetry returned: body and err
    disk,           \* the files of the updater's output directory
    runs,           \* the runs of the updater that were started
    forceUpdate,    \* the -force-update flag of the run
    smartUpdate,    \* the -smart-update flag of the run
    sprintUpdate,   \* the -sprint flag of the run ("" is <<>>)
    staleKeys,      \* staleKeys of the smart update, sorted
    sprintIssues,   \* the keys GetIssuesInSprint returned
    updatedIssues,  \* the keys QueryUpdatedIssues returned
    idx,            \* the place of the range loop under way
    maxNumber,      \* the number of the highest issue key
    numbersOnDisk,  \* the result of GetProjectNumbersOnDisk
    loopI,          \* the loop variable i of the backfill and the force loop
    fetchKey,       \* the issueKey FetchAndSaveIssueWithChangelog was called with
    phase,          \* the step of main the call belongs to
    hits,           \* what the search matches on the server, in its order
    total,          \* the total the server reports with every page
    diskUpdated,    \* what issues/<key>.json holds for the search to compare
    startAt,        \* startAt of QueryUpdatedIssues
    resultIssues,   \* result.Issues of the page under the scan
    issueIdx,       \* the place of the loop over result.Issues
    stopEarly,      \* stopEarly of QueryUpdatedIssues
    results         \* results of QueryUpdatedIssues

\* the bucket walk of one window
loopVars == <<loopW, cursor, loopLabels>>

\* the call of SortNumerically
sortVars == <<keysIn, inList>>

\* the call of DoGetWithRetry
getVars == <<getURL, attempt, responses, ret>>

\* the run of the updater
updaterVars == <<disk, runs, forceUpdate, smartUpdate, sprintUpdate,
                 staleKeys, sprintIssues, updatedIssues, idx, maxNumber,
                 numbersOnDisk, loopI, fetchKey, phase>>

\* the call of QueryUpdatedIssues
queryVars == <<hits, total, diskUpdated, startAt, resultIssues, issueIdx,
               stopEarly, results>>

\* what the walk over the directory, the replay and the report leave alone
others == <<loopVars, sortVars, getVars, updaterVars, queryVars>>

\* what the bucket walk leaves alone, what the sort does, what the request
\* loop does
notLoop == <<sortVars, getVars, updaterVars, queryVars>>
notSort == <<loopVars, getVars, updaterVars, queryVars>>
notGet == <<loopVars, sortVars, updaterVars, queryVars>>
notUpdater == <<loopVars, sortVars, queryVars>>
notQuery == <<loopVars, sortVars, getVars, updaterVars>>

\* the state of the tracker but for its position
trackerData == <<intervalStr, sprintFilter, intervalDur, walkPos,
                 nItems, sprintWindows, sprintMeta, storyPoints, statuses,
                 counts, totalPoints, statusCounts, now, cache, changelog,
                 report, sinkError, out, debugLog, stdout>>

vars == <<pc, trackerData, others>>

----------------------------------------------------------------------------
(* Bounds of the model *)

\* change items replayed in one run
MaxItems == 3
\* timestamps lie at 0 .. MaxTime half granularity steps
MaxTime == 2

----------------------------------------------------------------------------
(* Text *)

Comma == ","
Space == " "
EmptyString == <<>>

\* strings.Split(s, ","): the pieces between the separators, empty ones kept
RECURSIVE SplitFrom(_, _, _)
SplitFrom(s, i, piece) ==
    IF i > Len(s) THEN <<piece>>
    ELSE IF s[i] = Comma THEN <<piece>> \o SplitFrom(s, i + 1, <<>>)
    ELSE SplitFrom(s, i + 1, Append(piece, s[i]))

\* the whole text as one piece
SplitWhole(s) == <<s>>

Split(s) == SplitFrom(s, 1, <<>>)

RECURSIVE TrimLeft(_)
TrimLeft(s) ==
    IF Len(s) > 0 /\ s[1] = Space THEN TrimLeft(Tail(s)) ELSE s

RECURSIVE TrimRight(_)
TrimRight(s) ==
    IF Len(s) > 0 /\ s[Len(s)] = Space
    THEN TrimRight(SubSeq(s, 1, Len(s) - 1)) ELSE s

\* strings.TrimSpace
TrimSpace(s) == TrimRight(TrimLeft(s))

\* strconv.ParseFloat(s, 64): a single numeric word parses, nothing else does
NumberWords == {"3", "5"}
ParseFloatOk(s) == Len(s) = 1 /\ s[1] \in NumberWords
ParseFloat(s) == IF s[1] = "3" THEN 3 ELSE 5

----------------------------------------------------------------------------
(* Time *)

Minute == 60
Hour == 60 * Minute
Day == 24 * Hour

IntervalNames == {"daily", "hourly", "minutely"}

\* any other word read as daily
parseIntervalLenient(interval) ==
    CASE interval = "daily" -> [dur |-> Day, err |-> FALSE]
      [] interval = "hourly" -> [dur |-> Hour, err |-> FALSE]
      [] interval = "minutely" -> [dur |-> Minute, err |-> FALSE]
      [] OTHER -> [dur |-> Day, err |-> FALSE]

\* parseInterval: the duration, 0 with an error for any other word
parseInterval(interval) ==
    CASE interval = "daily" -> [dur |-> Day, err |-> FALSE]
      [] interval = "hourly" -> [dur |-> Hour, err |-> FALSE]
      [] interval = "minutely" -> [dur |-> Minute, err |-> FALSE]
      [] OTHER -> [dur |-> 0, err |-> TRUE]

Nil == [nil |-> TRUE]

\* a cursor that starts at the window's start itself
TruncateNone(t, d) == t

\* time.Time.Truncate(d): down to a multiple of d on the absolute time line
Truncate(t, d) == [abs |-> t.abs - (t.abs % d), off |-> t.off]

\* a cursor that stays where it is
AddNothing(t, d) == t

\* time.Time.Add(d)
Add(t, d) == [abs |-> t.abs + d, off |-> t.off]

\* a walk that stops when the cursor reaches the end
AfterOrEqual(t, u) == t.abs >= u.abs

\* time.Time.After
After(t, u) == t.abs > u.abs

\* t.Format(timeFormatFor(d)): the wall clock of t in its own zone, cut to the
\* day, the hour or the minute; the label is the number of that day, hour or
\* minute, which orders as the fixed-width text does
Format(t, d) == (t.abs + t.off) \div d

\* a parse that takes any text
ParseOkAny(created) == TRUE

\* time.Parse("2006-01-02T15:04:05.000-0700", created)
ParseOk(created) == created.layout = "ms-offset"
ParseTime(created) == [abs |-> created.abs, off |-> created.off]

----------------------------------------------------------------------------
(* Go maps: a missing key reads as the zero value *)

EmptyMap == [x \in {} |-> 0]

MapGet(f, k, zero) == IF k \in DOMAIN f THEN f[k] ELSE zero

MapPut(f, k, v) == [x \in (DOMAIN f) \cup {k} |-> IF x = k THEN v ELSE f[x]]

----------------------------------------------------------------------------
(* Replay of one change item: the body of the loop over h.Items *)

\* the issue files of the directory, in the order filepath.Walk visits them
IssueKeys == <<"X-1", "X-2">>

SprintKey(issueKey, sprint) == [IssueKey |-> issueKey, Sprint |-> sprint]

WindowSpan(from) == [FromTime |-> from, ToTime |-> Nil]

\* the windows of a pair, nil slice when the map has no entry
WindowsOf(w, k) == MapGet(w, k, <<>>)

\* a guard that knows no filter
SkipSprintEmpty(sprint, filter) == sprint = EmptyString

\* the guard of both loops: an empty name, or a name the filter leaves out
SkipSprint(sprint, filter) ==
    sprint = EmptyString \/ (filter # EmptyString /\ sprint # filter)

\* a leave that closes nothing
CloseWindowIgnored(w, k, t) == w

\* a leave that sets the end of the last window whether it is open or not
CloseWindowAlways(w, k, t) ==
    LET windows == WindowsOf(w, k) IN
    IF Len(windows) > 0
    THEN MapPut(w, k, [windows EXCEPT ![Len(windows)].ToTime = t])
    ELSE w

\* a leave that sets the end to the zero time
CloseWindowAtEpoch(w, k, t) ==
    LET windows == WindowsOf(w, k) IN
    IF Len(windows) > 0 /\ windows[Len(windows)].ToTime = Nil
    THEN MapPut(w, k, [windows EXCEPT ![Len(windows)].ToTime = [t EXCEPT !.abs = 0]])
    ELSE w

\* the leave branch: the last window of the pair gets its end when it is open
CloseWindow(w, k, t) ==
    LET windows == WindowsOf(w, k) IN
    IF Len(windows) > 0 /\ windows[Len(windows)].ToTime = Nil
    THEN MapPut(w, k, [windows EXCEPT ![Len(windows)].ToTime = t])
    ELSE w

\* a snapshot refreshed at every join
SnapshotMetaEveryJoin(m, k, points, status) ==
    MapPut(m, k, [Points |-> points, Status |-> status])

\* the snapshot taken when the pair has no metadata yet
SnapshotMeta(m, k, points, status) ==
    IF k \notin DOMAIN m
    THEN MapPut(m, k, [Points |-> points, Status |-> status])
    ELSE m

\* the join branch: a new open window is appended
OpenWindow(w, k, t) == MapPut(w, k, Append(WindowsOf(w, k), WindowSpan(t)))

\* for _, sprint := range originSprints
RECURSIVE LeaveLoop(_, _, _, _, _, _)
LeaveLoop(st, issueKey, originSprints, i, t, filter) ==
    IF i > Len(originSprints) THEN st
    ELSE LET sprint == TrimSpace(originSprints[i])
             next == IF SkipSprint(sprint, filter) THEN st
                     ELSE [st EXCEPT !.w = CloseWindow(st.w, SprintKey(issueKey, sprint), t)]
         IN LeaveLoop(next, issueKey, originSprints, i + 1, t, filter)

\* for _, sprint := range newSprints
RECURSIVE JoinLoop(_, _, _, _, _, _)
JoinLoop(st, issueKey, newSprints, i, t, filter) ==
    IF i > Len(newSprints) THEN st
    ELSE LET sprint == TrimSpace(newSprints[i])
             k == SprintKey(issueKey, sprint)
             next == IF SkipSprint(sprint, filter) THEN st
                     ELSE [st EXCEPT
                             !.m = SnapshotMeta(st.m, k, MapGet(st.sp, issueKey, 0),
                                                MapGet(st.stt, issueKey, EmptyString)),
                             !.w = OpenWindow(st.w, k, t)]
         IN JoinLoop(next, issueKey, newSprints, i + 1, t, filter)

\* case "Sprint"
ApplySprint(st, issueKey, item, t, filter) ==
    LET originSprints == Split(item.FromString)
        newSprints == Split(item.ToString)
    IN JoinLoop(LeaveLoop(st, issueKey, originSprints, 1, t, filter),
                issueKey, newSprints, 1, t, filter)

\* one running estimate for every issue of the directory
ApplyStoryPointsShared(st, issueKey, item) ==
    IF item.ToString # EmptyString /\ ParseFloatOk(item.ToString)
    THEN [st EXCEPT !.sp = [k \in { IssueKeys[i] : i \in 1 .. Len(IssueKeys) } |->
                              ParseFloat(item.ToString)]]
    ELSE st

\* an estimate that also reaches the snapshots the issue's pairs already have
ApplyStoryPointsLate(st, issueKey, item) ==
    IF item.ToString # EmptyString /\ ParseFloatOk(item.ToString)
    THEN [st EXCEPT !.sp = MapPut(st.sp, issueKey, ParseFloat(item.ToString)),
                    !.m = [k \in DOMAIN st.m |->
                             IF k.IssueKey = issueKey
                             THEN [st.m[k] EXCEPT !.Points = ParseFloat(item.ToString)]
                             ELSE st.m[k]]]
    ELSE st

\* case "Story Points"
ApplyStoryPoints(st, issueKey, item) ==
    IF item.ToString # EmptyString /\ ParseFloatOk(item.ToString)
    THEN [st EXCEPT !.sp = MapPut(st.sp, issueKey, ParseFloat(item.ToString))]
    ELSE st

\* a running status that takes every new value, the empty one too
ApplyStatusAlways(st, issueKey, item) ==
    [st EXCEPT !.stt = MapPut(st.stt, issueKey, item.ToString)]

\* case "status"
ApplyStatus(st, issueKey, item) ==
    IF item.ToString # EmptyString
    THEN [st EXCEPT !.stt = MapPut(st.stt, issueKey, item.ToString)]
    ELSE st

\* switch item.Field
ApplyItem(st, issueKey, item, t, filter) ==
    CASE item.Field = "Sprint" -> ApplySprint(st, issueKey, item, t, filter)
      [] item.Field = "Story Points" -> ApplyStoryPoints(st, issueKey, item)
      [] item.Field = "status" -> ApplyStatus(st, issueKey, item)
      [] OTHER -> st

\* for _, item := range h.Items
RECURSIVE ItemsLoop(_, _, _, _, _, _)
ItemsLoop(st, issueKey, items, i, t, filter) ==
    IF i > Len(items) THEN st
    ELSE ItemsLoop(ApplyItem(st, issueKey, items[i], t, filter),
                   issueKey, items, i + 1, t, filter)

\* for _, h := range changelog.Histories: an entry whose time does not parse
\* is passed over
RECURSIVE HistoriesLoop(_, _, _, _, _)
HistoriesLoop(st, issueKey, histories, i, filter) ==
    IF i > Len(histories) THEN st
    ELSE LET h == histories[i]
             next == IF ParseOk(h.Created)
                     THEN ItemsLoop(st, issueKey, h.Items, 1, ParseTime(h.Created), filter)
                     ELSE st
         IN HistoriesLoop(next, issueKey, histories, i + 1, filter)

----------------------------------------------------------------------------
(* Aggregation: the loops over sprintWindows after the walk *)

key(ts, sprint) == [Timestamp |-> ts, Sprint |-> sprint]

\* an estimate added for every covering window
AddPointsPerWindow(acc, kk, meta) ==
    [acc EXCEPT !.totalPoints = MapPut(@, kk, MapGet(@, kk, 0) + meta.Points),
                !.seen = @ \cup {kk}]

\* totalPoints[kk] += meta.Points, once per pair and bucket
AddPoints(acc, kk, meta) ==
    IF kk \notin acc.seen
    THEN [acc EXCEPT !.totalPoints = MapPut(@, kk, MapGet(@, kk, 0) + meta.Points),
                     !.seen = @ \cup {kk}]
    ELSE acc

\* a status marked present instead of counted
AddStatusOnce(acc, kk, meta) ==
    LET row == MapGet(acc.statusCounts, kk, EmptyMap) IN
    [acc EXCEPT !.statusCounts = MapPut(@, kk, MapPut(row, meta.Status, 1))]

\* statusCounts[kk][meta.Status]++
AddStatus(acc, kk, meta) ==
    LET row == MapGet(acc.statusCounts, kk, EmptyMap) IN
    [acc EXCEPT !.statusCounts =
        MapPut(@, kk, MapPut(row, meta.Status, MapGet(row, meta.Status, 0) + 1))]

\* a bucket that keeps the last issue only
AddIssueLast(acc, kk, k) ==
    [acc EXCEPT !.counts = MapPut(@, kk, {k.IssueKey})]

\* counts[kk][k.IssueKey] = struct{}{}
AddIssue(acc, kk, k) ==
    [acc EXCEPT !.counts = MapPut(@, kk, MapGet(@, kk, {}) \cup {k.IssueKey})]

\* a bucket walk that counts a status for the first window of the bucket only
BucketStepFirstStatus(acc, k, meta, t, d) ==
    LET kk == key(Format(t, d), k.Sprint) IN
    IF kk \in DOMAIN acc.statusCounts
    THEN AddPoints(AddIssue(acc, kk, k), kk, meta)
    ELSE AddStatus(AddPoints(AddIssue(acc, kk, k), kk, meta), kk, meta)

\* the body of the bucket walk
BucketStep(acc, k, meta, t, d) ==
    LET kk == key(Format(t, d), k.Sprint) IN
    AddStatus(AddPoints(AddIssue(acc, kk, k), kk, meta), kk, meta)

\* for t := w.FromTime.Truncate(d); !t.After(end); t = t.Add(d)
RECURSIVE BucketLoop(_, _, _, _, _, _)
BucketLoop(acc, k, meta, t, end, d) ==
    IF After(t, end) THEN acc
    ELSE BucketLoop(BucketStep(acc, k, meta, t, d), k, meta, Add(t, d), end, d)

\* end := now; if w.ToTime != nil { end = *w.ToTime }
WindowEnd(w, nw) == IF w.ToTime # Nil THEN w.ToTime ELSE nw

\* for _, w := range windows
RECURSIVE WindowsLoop(_, _, _, _, _, _, _)
WindowsLoop(acc, k, meta, windows, i, nw, d) ==
    IF i > Len(windows) THEN acc
    ELSE WindowsLoop(
             BucketLoop(acc, k, meta, Truncate(windows[i].FromTime, d),
                        WindowEnd(windows[i], nw), d),
             k, meta, windows, i + 1, nw, d)

ZeroMeta == [Points |-> 0, Status |-> EmptyString]

\* for k, windows := range sprintWindows, in some order of the map's keys
RECURSIVE PairsLoop(_, _, _, _, _, _)
PairsLoop(acc, w, m, pending, nw, d) ==
    IF pending = {} THEN acc
    ELSE LET k == CHOOSE x \in pending : TRUE
             fresh == [acc EXCEPT !.seen = {}]
         IN PairsLoop(WindowsLoop(fresh, k, MapGet(m, k, ZeroMeta), w[k], 1, nw, d),
                      w, m, pending \ {k}, nw, d)

Aggregated(w, m, nw, d) ==
    PairsLoop([counts |-> EmptyMap, totalPoints |-> EmptyMap,
               statusCounts |-> EmptyMap, seen |-> {}],
              w, m, DOMAIN w, nw, d)

----------------------------------------------------------------------------
(* Inputs of a run *)

\* a time zone west of UTC
ZoneOffsets == {0}

\* the created values of history entries: well formed at half steps of the
\* granularity, or in another layout
CreatedSet(d) ==
    {[layout |-> "ms-offset", abs |-> n * (d \div 2), off |-> z] :
        n \in 0 .. MaxTime, z \in ZoneOffsets}
    \cup {[layout |-> "rfc3339", abs |-> 0, off |-> 0]}

\* time.Now(): inside the range of the timestamps, or after all of them
NowSet(d) == {[abs |-> n * (d \div 2), off |-> 0] : n \in {1, MaxTime + 1}}

SprintStrings ==
    { <<>>, <<"A">>, <<"B">>, <<"A", ",", " ", ",", " ", "B">> }

StoryPointStrings == { <<>>, <<"5">>, <<"x">> }

StatusStrings == { <<>>, <<"Closed">> }

HistoryItem(field, from, to) ==
    [Field |-> field, FromString |-> from, ToString |-> to]

ItemSet ==
    {HistoryItem("Sprint", f, t) : f \in SprintStrings, t \in SprintStrings}
    \cup {HistoryItem("Story Points", <<>>, t) : t \in StoryPointStrings}
    \cup {HistoryItem("status", <<>>, t) : t \in StatusStrings}
    \cup {HistoryItem("sprint", <<>>, <<"A">>)}

FilterSet == { <<>>, <<"A">> }

----------------------------------------------------------------------------
(* The run, one change item at a time *)

ReplayState == [w |-> sprintWindows, m |-> sprintMeta,
                sp |-> storyPoints, stt |-> statuses]

\* the run before its first statement, flags apart
\* no bucket walk is under way
LoopIdle ==
    /\ loopW = Nil
    /\ cursor = Nil
    /\ loopLabels = {}

\* no sort is under way
SortIdle ==
    /\ keysIn = <<>>
    /\ inList = <<>>

\* no request is under way
GetIdle ==
    /\ getURL = <<>>
    /\ attempt = 0
    /\ responses = <<>>
    /\ ret = Nil

\* no updater is running
UpdaterIdle ==
    /\ disk = {}
    /\ runs = 0
    /\ forceUpdate = FALSE
    /\ smartUpdate = FALSE
    /\ sprintUpdate = <<>>
    /\ staleKeys = <<>>
    /\ sprintIssues = <<>>
    /\ updatedIssues = <<>>
    /\ idx = 0
    /\ maxNumber = 0
    /\ numbersOnDisk = {}
    /\ loopI = 0
    /\ fetchKey = <<>>
    /\ phase = ""

\* no search for updated issues is under way
QueryIdle ==
    /\ hits = <<>>
    /\ total = 0
    /\ diskUpdated = <<>>
    /\ startAt = 0
    /\ resultIssues = <<>>
    /\ issueIdx = 0
    /\ stopEarly = FALSE
    /\ results = <<>>

\* the state of what the run of the tracker does not touch
OthersIdle == LoopIdle /\ SortIdle /\ GetIdle /\ UpdaterIdle /\ QueryIdle

InitMaps ==
    /\ intervalDur = 0
    /\ pc = "start"
    /\ walkPos = 0
    /\ nItems = 0
    /\ sprintWindows = EmptyMap
    /\ sprintMeta = EmptyMap
    /\ storyPoints = EmptyMap
    /\ statuses = EmptyMap
    /\ counts = EmptyMap
    /\ totalPoints = EmptyMap
    /\ statusCounts = EmptyMap
    /\ now = Nil
    /\ changelog = <<>>
    /\ report = <<>>
    /\ sinkError = FALSE
    /\ stdout = <<>>

\* flags and maps at the start of process, -debug apart
InitRun ==
    /\ intervalStr = "daily"
    /\ sprintFilter \in FilterSet
    /\ out = EmptyString
    /\ InitMaps
    /\ OthersIdle

Init == InitRun /\ debugLog = FALSE /\ cache = EmptyMap

\* intervalDur, err := parseInterval(intervalStr); log.Fatalf on error
ParseInterval ==
    /\ pc = "start"
    /\ LET r == parseInterval(intervalStr) IN
         /\ intervalDur' = r.dur
         /\ pc' = IF r.err THEN "fatal" ELSE "walk"
    /\ UNCHANGED <<intervalStr, sprintFilter, walkPos, nItems,
                   sprintWindows, sprintMeta, storyPoints, statuses,
                   counts, totalPoints, statusCounts, now, cache, changelog,
                   report, sinkError, out, debugLog, stdout, others>>

\* the walk enters the next issue file
VisitFile ==
    /\ pc = "walk"
    /\ walkPos < Len(IssueKeys)
    /\ walkPos' = walkPos + 1
    /\ UNCHANGED <<intervalStr, sprintFilter, intervalDur, pc, nItems,
                   sprintWindows, sprintMeta, storyPoints, statuses,
                   counts, totalPoints, statusCounts, now, cache, changelog,
                   report, sinkError, out, debugLog, stdout, others>>

\* includes(list, target): a piece of the list is the target when trimmed
includes(list, target) ==
    \E i \in 1 .. Len(list) : TrimSpace(list[i]) = target

\* the line the -debug flag prints for a Sprint item:
\* fmt.Printf("%s %s %s -> %s\n", h.Created, issue.Key, originSprints, newSprints)
DebugLine(created, issueKey, item) ==
    [kind |-> "debug", Created |-> created, Key |-> issueKey,
     From |-> Split(item.FromString), To |-> Split(item.ToString)]

\* what one change item of an entry created at `created` prints: the debug
\* line of a Sprint item of an entry whose time parses, when the flag is set
\* and there is no filter or the filter is among the item's names
DebugOf(debug, created, issueKey, item, filter) ==
    IF /\ debug
       /\ ParseOk(created)
       /\ item.Field = "Sprint"
       /\ \/ filter = EmptyString
          \/ includes(Split(item.FromString), filter)
          \/ includes(Split(item.ToString), filter)
    THEN <<DebugLine(created, issueKey, item)>>
    ELSE <<>>

\* what the replay of a whole changelog prints, entry by entry, item by item
RECURSIVE DebugLines(_, _, _, _, _, _)
DebugLines(debug, issueKey, histories, i, j, filter) ==
    IF i > Len(histories) THEN <<>>
    ELSE IF j > Len(histories[i].Items)
         THEN DebugLines(debug, issueKey, histories, i + 1, 1, filter)
    ELSE DebugOf(debug, histories[i].Created, issueKey, histories[i].Items[j], filter)
         \o DebugLines(debug, issueKey, histories, i, j + 1, filter)

\* what replaying one change item of an entry created at `created` does to
\* the four maps: nothing when that time does not parse
ReplayEffects(created, item) ==
    LET st == IF ParseOk(created)
              THEN ApplyItem(ReplayState, IssueKeys[walkPos], item,
                             ParseTime(created), sprintFilter)
              ELSE ReplayState
    IN /\ sprintWindows' = st.w
       /\ sprintMeta' = st.m
       /\ storyPoints' = st.sp
       /\ statuses' = st.stt
       /\ stdout' = stdout \o DebugOf(debugLog, created, IssueKeys[walkPos], item,
                                     sprintFilter)

\* the loops over changelog.Histories and h.Items reach the next change item,
\* of an entry created at `created`: it is replayed when that time parses
ReplayItem(created, item) ==
    /\ pc = "walk"
    /\ walkPos > 0
    /\ nItems < MaxItems
    /\ ReplayEffects(created, item)
    /\ nItems' = nItems + 1
    /\ UNCHANGED <<intervalStr, sprintFilter, intervalDur, pc, walkPos,
                   counts, totalPoints, statusCounts, now, cache, changelog,
                   report, sinkError, out, debugLog, others>>

\* fmt.Println("-----...")
Dashes == [kind |-> "dashes"]

\* fmt.Printf("%s %s %s %s\n", skey.IssueKey, skey.Sprint, k, window)
WindowLine(skey, k, window) ==
    [kind |-> "window", IssueKey |-> skey.IssueKey, Sprint |-> skey.Sprint,
     k |-> k, window |-> window]

\* the lines of one pair, one per window in the order of the list, with the
\* index of the window from 0
PairLines(skey, windows) ==
    [k \in 1 .. Len(windows) |-> WindowLine(skey, k - 1, windows[k])]

\* the lines of the loop over sprintWindows. The range over the map takes
\* the pairs in an order Go leaves open: with no pair there is no line, with
\* one pair its lines, and with more the lines are kept as one block of the
\* runs of the pairs, which stands for every order of the runs
WindowLines(w) ==
    IF Cardinality(DOMAIN w) <= 1
    THEN IF DOMAIN w = {} THEN <<>>
         ELSE LET skey == CHOOSE x \in DOMAIN w : TRUE IN PairLines(skey, w[skey])
    ELSE << [kind |-> "windows",
             runs |-> { PairLines(skey, w[skey]) : skey \in DOMAIN w }] >>

\* the walk is over: the windows are printed between two lines of dashes,
\* then now := time.Now() and the three maps are filled
Aggregate(nw) ==
    /\ pc = "walk"
    /\ stdout' = stdout \o <<Dashes>> \o WindowLines(sprintWindows) \o <<Dashes>>
    /\ LET acc == Aggregated(sprintWindows, sprintMeta, nw, intervalDur) IN
         /\ counts' = acc.counts
         /\ totalPoints' = acc.totalPoints
         /\ statusCounts' = acc.statusCounts
    /\ now' = nw
    /\ pc' = "aggregated"
    /\ UNCHANGED <<intervalStr, sprintFilter, intervalDur, walkPos,
                   nItems, sprintWindows, sprintMeta, storyPoints, statuses,
                   cache, changelog,
                   report, sinkError, out, debugLog, others>>

Next ==
    \/ ParseInterval
    \/ VisitFile
    \/ \E created \in CreatedSet(intervalDur), item \in ItemSet : ReplayItem(created, item)
    \/ \E nw \in NowSet(intervalDur) : Aggregate(nw)

Spec == Init /\ [][Next]_vars

----------------------------------------------------------------------------
(* The walk callback as a whole, over a directory given at the start *)

\* history entries in the changelog of the first issue
MaxHist == 3
\* history entries in the changelog of the second issue
MaxChildHist == 1

\* the names of the two files of an issue
IssueFile(k) == <<k, ".json">>
ChangelogFile(k) == <<k, ".changelog.json">>

\* a read that falls back to the first changelog of the directory
GetIssueChangelogAny(c, k) ==
    IF k \in DOMAIN c.changelogs
    THEN [err |-> FALSE, log |-> c.changelogs[IssueKeys[1]]]
    ELSE [err |-> TRUE, log |-> <<>>]

\* jira.GetIssueChangelogFromCache: the read fails when the file is not there
\* and when its content does not unmarshal
GetIssueChangelogFromCache(c, k) ==
    IF k \in DOMAIN c.changelogs /\ ChangelogFile(k) \notin c.malformed
    THEN [err |-> FALSE, log |-> c.changelogs[k]]
    ELSE [err |-> TRUE, log |-> <<>>]

\* the scan for an item whose field is "Sprint"
HasSprintEvents(histories) ==
    \E i \in 1 .. Len(histories) :
        \E j \in 1 .. Len(histories[i].Items) : histories[i].Items[j].Field = "Sprint"

\* the field name ToChangelog gives its items
SyntheticField == "sprint"

\* jira.ToChangelog: one entry at the creation time, one item per sprint
ToChangelog(iss) ==
    << [Created |-> iss.Created,
        Items |-> [i \in 1 .. Len(iss.Sprints) |->
                     HistoryItem(SyntheticField, EmptyString, iss.Sprints[i])]] >>

\* a parent step that is never taken
UseParentNever(found, iss) == FALSE

\* a parent step taken for every issue that names a parent
UseParentAlways(found, iss) == iss.Parent # ""

\* the parent step: taken when the own changelog has no Sprint item and the
\* issue names a parent
UseParent(found, iss) == ~found /\ iss.Parent # ""

\* the changelog the callback replays, or the error it returns
ResolveChangelog(c, iss) ==
    LET own == GetIssueChangelogFromCache(c, iss.Key)
        ownFound == HasSprintEvents(own.log)
        parent == GetIssueChangelogFromCache(c, iss.Parent)
        parentFound == UseParent(ownFound, iss) /\ HasSprintEvents(parent.log)
    IN IF own.err THEN [err |-> TRUE, log |-> <<>>]
       ELSE IF UseParent(ownFound, iss) /\ parent.err THEN [err |-> TRUE, log |-> own.log]
       ELSE IF parentFound THEN [err |-> FALSE, log |-> parent.log]
       ELSE IF ~ownFound /\ Len(iss.Sprints) > 0
            THEN [err |-> FALSE, log |-> ToChangelog(iss)]
       ELSE [err |-> FALSE, log |-> own.log]

\* os.ReadFile and json.Unmarshal of the issue file: the record does not parse
ReadIssueFails(c, k) == IssueFile(k) \in c.malformed

\* windows and metadata filed under the parent's key
ReplayKeyOfParent(iss) == IF iss.Parent # "" THEN iss.Parent ELSE iss.Key

\* SprintKey{IssueKey: issue.Key, ...}: the key the replay files under
ReplayKey(iss) == iss.Key

\* the callback of filepath.Walk for the next issue file; an error it returns
\* ends the walk and the run (log.Fatalf)
WalkFile ==
    /\ pc = "walk"
    /\ cache # EmptyMap
    /\ walkPos < Len(IssueKeys)
    /\ walkPos' = walkPos + 1
    /\ LET iss == cache.issues[IssueKeys[walkPos + 1]]
           r == IF ReadIssueFails(cache, iss.Key)
                THEN [err |-> TRUE, log |-> <<>>]
                ELSE ResolveChangelog(cache, iss)
           st == IF r.err THEN ReplayState
                 ELSE HistoriesLoop(ReplayState, ReplayKey(iss), r.log, 1, sprintFilter)
       IN /\ changelog' = r.log
          /\ pc' = IF r.err THEN "fatal" ELSE "walk"
          /\ sprintWindows' = st.w
          /\ sprintMeta' = st.m
          /\ storyPoints' = st.sp
          /\ statuses' = st.stt
          /\ stdout' = IF r.err THEN stdout
                       ELSE stdout \o DebugLines(debugLog, ReplayKey(iss), r.log, 1, 1,
                                                 sprintFilter)
    /\ UNCHANGED <<intervalStr, sprintFilter, intervalDur, nItems,
                   counts, totalPoints, statusCounts, now, cache,
                   report, sinkError, out, debugLog, others>>

GoodCreated(n, d) == [layout |-> "ms-offset", abs |-> n * (d \div 2), off |-> 0]
BadCreated == [layout |-> "rfc3339", abs |-> 0, off |-> 0]

\* the change items of cached changelogs
CacheItems ==
    { HistoryItem("Sprint", <<>>, <<"A">>),
      HistoryItem("Sprint", <<"A">>, <<"B">>),
      HistoryItem("Story Points", <<>>, <<"5">>) }

ChildItems ==
    { HistoryItem("Sprint", <<>>, <<"B">>),
      HistoryItem("status", <<>>, <<"Closed">>) }

\* changelogs of n one-item entries, the i-th created at half step i - 1
RECURSIVE LogsOfLen(_, _, _)
LogsOfLen(n, items, d) ==
    IF n = 0 THEN { <<>> }
    ELSE { Append(l, [Created |-> GoodCreated(n - 1, d), Items |-> <<it>>]) :
             l \in LogsOfLen(n - 1, items, d), it \in items }

Logs(max, items, d) == UNION { LogsOfLen(n, items, d) : n \in 0 .. max }

IssueRecord(k, parent, sprints, created) ==
    [Key |-> k, Parent |-> parent, Sprints |-> sprints, Created |-> created]

\* the directories of the bounded runs: X-1 with a changelog of up to MaxHist
\* entries; X-2 with a short changelog or none, with or without a parent,
\* whose changelog may be missing (X-9)
CacheSet(d) ==
    { [issues |-> [k \in {"X-1", "X-2"} |-> IF k = "X-1" THEN i1 ELSE i2],
       changelogs |-> c, malformed |-> {}] :
        i1 \in { IssueRecord("X-1", "", sp, GoodCreated(0, d)) : sp \in { <<>>, << <<"A">> >> } },
        i2 \in { IssueRecord("X-2", par, sp, cr) :
                   par \in {"", "X-1", "X-9"},
                   sp \in { <<>>, << <<"A">> >>, << <<"A">>, <<"B">> >> },
                   cr \in { GoodCreated(1, d), BadCreated } },
        c \in { [k \in {"X-1", "X-2"} |-> IF k = "X-1" THEN l1 ELSE l2] :
                  l1 \in Logs(MaxHist, CacheItems, d),
                  l2 \in Logs(MaxChildHist, ChildItems, d) }
              \cup { [k \in {"X-1"} |-> l1] : l1 \in Logs(MaxHist, CacheItems, d) } }

InitCache ==
    /\ InitRun
    /\ debugLog \in BOOLEAN
    /\ cache \in CacheSet(parseInterval(intervalStr).dur)

NextCache ==
    \/ ParseInterval
    \/ WalkFile

SpecCache == InitCache /\ [][NextCache]_vars

----------------------------------------------------------------------------
(* Properties *)

\* the iteration names of a comma-separated list whose names are single words:
\* every symbol that is neither a comma nor a blank
TokenSet(s) ==
    { <<s[i]>> : i \in { j \in 1 .. Len(s) : s[j] \notin {Comma, Space} } }

\* how many times a name stands in a list
Occurrences(s, name) == Cardinality({ i \in 1 .. Len(s) : <<s[i]>> = name })

\* the issue the stepwise walk is in
CurrentKey == IssueKeys[walkPos]

\* C1: once a pair has its metadata, no step of the run changes or removes it:
\* the estimate and status snapshotted at the first join stay through leaves,
\* rejoins and later estimate and status changes.
C1_FirstJoinWins ==
    [][\A k \in DOMAIN sprintMeta :
          k \in DOMAIN sprintMeta' /\ sprintMeta'[k] = sprintMeta[k]]_vars

\* a pair that left and rejoined while the running estimate is no longer the
\* snapshotted one
C1_Witness ==
    \E k \in DOMAIN sprintMeta :
        /\ Len(sprintWindows[k]) >= 2
        /\ sprintWindows[k][1].ToTime # Nil
        /\ MapGet(storyPoints, k.IssueKey, 0) # sprintMeta[k].Points

\* C2: replaying a Sprint item leaves the windows of every name that is in
\* both its previous and its new list as they were.
C2_BothListsNoOp ==
    [][\A created \in CreatedSet(intervalDur), item \in ItemSet :
          (ReplayItem(created, item) /\ item.Field = "Sprint")
          => \A name \in TokenSet(item.FromString) \cap TokenSet(item.ToString) :
                WindowsOf(sprintWindows', SprintKey(CurrentKey, name))
                  = WindowsOf(sprintWindows, SprintKey(CurrentKey, name))]_vars

\* a name both loops handle under the filter of the run
Tracked(name) == sprintFilter = EmptyString \/ name = sprintFilter

\* C7: a Sprint item is handled name by name. Every tracked name of the new
\* list gets one more window per occurrence, the last one open and started at
\* the entry's time; a tracked name that is only in the previous list has its
\* open last window closed at that time; no other pair is touched, so no pair
\* is ever keyed by a whole list or by an empty name.
C7_PerName ==
    [][\A created \in CreatedSet(intervalDur), item \in ItemSet :
          (ReplayItem(created, item) /\ item.Field = "Sprint" /\ ParseOk(created))
          => LET from == { n \in TokenSet(item.FromString) : Tracked(n) }
                 to == { n \in TokenSet(item.ToString) : Tracked(n) }
                 t == ParseTime(created)
             IN /\ \A n \in to :
                      LET old == WindowsOf(sprintWindows, SprintKey(CurrentKey, n))
                          new == WindowsOf(sprintWindows', SprintKey(CurrentKey, n))
                      IN /\ Len(new) = Len(old) + Occurrences(item.ToString, n)
                         /\ new[Len(new)] = WindowSpan(t)
                /\ \A n \in from \ to :
                      LET old == WindowsOf(sprintWindows, SprintKey(CurrentKey, n))
                          new == WindowsOf(sprintWindows', SprintKey(CurrentKey, n))
                      IN /\ Len(new) = Len(old)
                         /\ Len(old) > 0 /\ old[Len(old)].ToTime = Nil
                            => new[Len(new)].ToTime = t
                /\ \A k \in DOMAIN sprintWindows' :
                      (k.IssueKey # CurrentKey \/ k.Sprint \notin from \cup to)
                      => k \in DOMAIN sprintWindows /\ sprintWindows'[k] = sprintWindows[k]]_vars

\* one item with the new value "A, , B" has been replayed: both names have a
\* window
C7_Witness ==
    /\ nItems = 1
    /\ SprintKey("X-1", <<"A">>) \in DOMAIN sprintWindows
    /\ SprintKey("X-1", <<"B">>) \in DOMAIN sprintWindows

\* C8: with no filter set, an item in S1 since T1 that moves from S1 to S2 at
\* T2 has its S1 window closed at T2 and gets an S2 window open from T2; when
\* S1's snapshot holds the running estimate and S2 has no snapshot yet, both
\* snapshots hold that estimate after the move.
C8_ScenarioA ==
    [][\A created \in CreatedSet(intervalDur), item \in ItemSet :
          LET s1 == SprintKey(CurrentKey, item.FromString)
              s2 == SprintKey(CurrentKey, item.ToString)
              w1 == WindowsOf(sprintWindows, s1)
              t2 == ParseTime(created)
              pts == MapGet(storyPoints, CurrentKey, 0)
          IN (/\ ReplayItem(created, item) /\ item.Field = "Sprint" /\ ParseOk(created)
              /\ sprintFilter = EmptyString
              /\ Len(item.FromString) = 1 /\ Len(item.ToString) = 1
              /\ item.FromString # item.ToString
              /\ Len(w1) > 0 /\ w1[Len(w1)].ToTime = Nil)
             => /\ sprintWindows'[s1] = [w1 EXCEPT ![Len(w1)].ToTime = t2]
                /\ sprintWindows'[s2] = Append(WindowsOf(sprintWindows, s2), WindowSpan(t2))
                /\ (sprintMeta[s1].Points = pts /\ s2 \notin DOMAIN sprintMeta)
                   => sprintMeta'[s1].Points = pts /\ sprintMeta'[s2].Points = pts]_vars

\* the move has happened: A from T1 to T2, B open from T2, both snapshots 5
C8_Witness ==
    LET a == SprintKey("X-1", <<"A">>)
        b == SprintKey("X-1", <<"B">>)
    IN /\ sprintFilter = EmptyString
       /\ a \in DOMAIN sprintWindows /\ b \in DOMAIN sprintWindows
       /\ Len(sprintWindows[a]) = 1 /\ Len(sprintWindows[b]) = 1
       /\ sprintWindows[a][1].ToTime # Nil
       /\ sprintWindows[a][1].FromTime.abs < sprintWindows[a][1].ToTime.abs
       /\ sprintWindows[b][1] = WindowSpan(sprintWindows[a][1].ToTime)
       /\ sprintMeta[a].Points = 5 /\ sprintMeta[b].Points = 5

\* the bucket labels the walk over one window visits: from the start cut down
\* to the granularity, in steps of the granularity, while not after the end
CoveredLabels(win, nw, d) ==
    LET first == Truncate(win.FromTime, d)
        end == WindowEnd(win, nw)
    IN { Format(Add(first, n * d), d) :
           n \in { m \in 0 .. MaxTime + 2 : first.abs + m * d <= end.abs } }

\* the window instances that cover a bucket, as <<pair, index>>
Covering(kk) ==
    { pi \in UNION { {p} \X (1 .. Len(sprintWindows[p])) : p \in DOMAIN sprintWindows } :
        /\ pi[1].Sprint = kk.Sprint
        /\ kk.Timestamp \in CoveredLabels(sprintWindows[pi[1]][pi[2]], now, intervalDur) }

\* the pairs with at least one covering window
CoveringPairs(kk) == { pi[1] : pi \in Covering(kk) }

RECURSIVE SumOfPoints(_)
SumOfPoints(pairs) ==
    IF pairs = {} THEN 0
    ELSE LET p == CHOOSE x \in pairs : TRUE
         IN MapGet(sprintMeta, p, ZeroMeta).Points + SumOfPoints(pairs \ {p})

\* every bucket a run of these bounds can fill
Buckets ==
    { key(ts, n) : ts \in 0 .. MaxTime + 2, n \in UNION { TokenSet(x) : x \in SprintStrings } }

\* C5: after the aggregation the total estimate of every bucket is the sum of
\* the snapshotted estimates of the pairs with a window covering it, each pair
\* once, and the buckets with a total are the covered ones.
C5_TotalOncePerPair ==
    pc = "aggregated"
    => /\ DOMAIN totalPoints = { kk \in Buckets : Covering(kk) # {} }
       /\ \A kk \in Buckets :
             MapGet(totalPoints, kk, 0) = SumOfPoints(CoveringPairs(kk))

\* a pair with estimate 5 has two windows over one bucket, whose total is 5
C5_Witness ==
    /\ pc = "aggregated"
    /\ \E kk \in Buckets : \E p \in CoveringPairs(kk) :
          /\ Cardinality({ pi \in Covering(kk) : pi[1] = p }) >= 2
          /\ sprintMeta[p].Points = 5
          /\ totalPoints[kk] = 5

\* C6: after the aggregation the count of a status in a bucket is the number
\* of window instances covering the bucket whose pair has that snapshotted
\* status: two windows of one pair count twice.
C6_StatusPerWindow ==
    pc = "aggregated"
    => /\ DOMAIN statusCounts = { kk \in Buckets : Covering(kk) # {} }
       /\ \A kk \in Buckets : \A s \in StatusStrings :
             MapGet(MapGet(statusCounts, kk, EmptyMap), s, 0)
               = Cardinality({ pi \in Covering(kk) :
                                 MapGet(sprintMeta, pi[1], ZeroMeta).Status = s })

\* a pair snapshotted as Closed has two windows over one bucket, counted twice
C6_Witness ==
    /\ pc = "aggregated"
    /\ \E kk \in Buckets : \E p \in CoveringPairs(kk) :
          /\ Cardinality({ pi \in Covering(kk) : pi[1] = p }) = 2
          /\ sprintMeta[p].Status = <<"Closed">>
          /\ statusCounts[kk][<<"Closed">>] = 2

----------------------------------------------------------------------------
(* Properties of the walk callback *)

\* the issue whose file the callback step enters
Entered == cache.issues[IssueKeys[walkPos + 1]]

\* a step of the callback
CallbackStep == pc = "walk" /\ walkPos' = walkPos + 1

\* the changelog file of a key is there
HasLog(k) == k \in DOMAIN cache.changelogs

\* the changelog file of a key is there and holds a Sprint item
HasSprintLog(k) == HasLog(k) /\ HasSprintEvents(cache.changelogs[k])

\* the changelog file of a key is there and holds no Sprint item
HasPlainLog(k) == HasLog(k) /\ ~HasSprintEvents(cache.changelogs[k])

\* C3: with no filter set, an issue with current sprints, a creation time
\* that parses and no Sprint item in its own or its parent's changelog has,
\* once processed, exactly one window per current sprint, open and started at
\* the creation time.
C3_SyntheticWindows ==
    [][(/\ CallbackStep
        /\ sprintFilter = EmptyString
        /\ Len(Entered.Sprints) > 0
        /\ ParseOk(Entered.Created)
        /\ HasPlainLog(Entered.Key)
        /\ Entered.Parent = "" \/ HasPlainLog(Entered.Parent))
       => \A i \in 1 .. Len(Entered.Sprints) :
             WindowsOf(sprintWindows', SprintKey(Entered.Key, Entered.Sprints[i]))
               = << WindowSpan(ParseTime(Entered.Created)) >>]_vars

\* C4: an issue whose own changelog has no Sprint item and whose parent's
\* changelog has one is replayed from the parent's whole changelog, entry by
\* entry in the parent's order, and from nothing of its own.
C4_ParentChangelog ==
    [][(/\ CallbackStep
        /\ HasPlainLog(Entered.Key)
        /\ Entered.Parent # "" /\ HasSprintLog(Entered.Parent))
       => LET log == cache.changelogs[Entered.Parent]
              st == HistoriesLoop(ReplayState, Entered.Key, log, 1, sprintFilter)
          IN /\ changelog' = log
             /\ pc' = "walk"
             /\ storyPoints' = st.sp /\ statuses' = st.stt
             /\ sprintWindows' = st.w /\ sprintMeta' = st.m]_vars

\* the second issue was replayed from its parent's three entries, one of them
\* an estimate, and its own status entry left no trace
C4_Witness ==
    /\ walkPos = 2 /\ pc = "walk"
    /\ cache.issues["X-2"].Parent = "X-1"
    /\ HasLog("X-2") /\ Len(cache.changelogs["X-2"]) = 1
    /\ cache.changelogs["X-2"][1].Items[1].Field = "status"
    /\ changelog = cache.changelogs["X-1"] /\ Len(changelog) = MaxHist
    /\ MapGet(storyPoints, "X-2", 0) = 5
    /\ "X-2" \notin DOMAIN statuses

\* C9: processing an issue resolved to its parent's changelog files every
\* window and every snapshot under the issue's own key: each tracked name the
\* parent joined has a pair of the issue, and no pair of another key, the
\* parent's included, is added or changed.
C9_OwnKey ==
    [][(/\ CallbackStep
        /\ HasPlainLog(Entered.Key)
        /\ Entered.Parent # "" /\ HasSprintLog(Entered.Parent))
       => LET log == cache.changelogs[Entered.Parent]
              joined == UNION { UNION { TokenSet(log[i].Items[j].ToString) :
                                          j \in { x \in 1 .. Len(log[i].Items) :
                                                    log[i].Items[x].Field = "Sprint" } } :
                                  i \in 1 .. Len(log) }
          IN /\ \A n \in { x \in joined : Tracked(x) } :
                   /\ SprintKey(Entered.Key, n) \in DOMAIN sprintWindows'
                   /\ SprintKey(Entered.Key, n) \in DOMAIN sprintMeta'
             /\ \A k \in DOMAIN sprintWindows' :
                   k.IssueKey # Entered.Key
                   => k \in DOMAIN sprintWindows /\ sprintWindows'[k] = sprintWindows[k]
             /\ \A k \in DOMAIN sprintMeta' :
                   k.IssueKey # Entered.Key
                   => k \in DOMAIN sprintMeta /\ sprintMeta'[k] = sprintMeta[k]]_vars

\* the second issue was replayed from its parent's changelog: it has a window
\* of its own and the parent's pair keeps its single window
C9_Witness ==
    /\ walkPos = 2 /\ pc = "walk"
    /\ cache.issues["X-2"].Parent = "X-1"
    /\ HasPlainLog("X-2") /\ HasSprintLog("X-1")
    /\ SprintKey("X-2", <<"A">>) \in DOMAIN sprintWindows
    /\ SprintKey("X-1", <<"A">>) \in DOMAIN sprintWindows
    /\ Len(sprintWindows[SprintKey("X-1", <<"A">>)]) = 1

\* C10: an issue with an empty changelog, no current sprint and no parent with
\* a Sprint item in its changelog leaves the windows and the snapshots as
\* they were.
C10_NoHistoryNoWindows ==
    [][(/\ CallbackStep
        /\ HasLog(Entered.Key) /\ cache.changelogs[Entered.Key] = <<>>
        /\ Len(Entered.Sprints) = 0
        /\ Entered.Parent = "" \/ ~HasSprintLog(Entered.Parent))
       => sprintWindows' = sprintWindows /\ sprintMeta' = sprintMeta]_vars

\* such an issue was processed after one that has windows, and the run goes on
C10_Witness ==
    /\ walkPos = 2 /\ pc = "walk"
    /\ HasLog("X-2") /\ cache.changelogs["X-2"] = <<>>
    /\ Len(cache.issues["X-2"].Sprints) = 0
    /\ cache.issues["X-2"].Parent = ""
    /\ sprintWindows # EmptyMap
    /\ \A k \in DOMAIN sprintWindows : k.IssueKey = "X-1"

----------------------------------------------------------------------------
(* The report: the sorted bucket keys and the rows written to the sink *)

\* the symbols of the model's texts in byte order
WordOrder == <<" ", ",", "A", "B">>

Rank(c) == CHOOSE i \in 1 .. Len(WordOrder) : WordOrder[i] = c

\* Go's < on strings
RECURSIVE TextLess(_, _)
TextLess(a, b) ==
    IF Len(b) = 0 THEN FALSE
    ELSE IF Len(a) = 0 THEN TRUE
    ELSE IF a[1] = b[1] THEN TextLess(Tail(a), Tail(b))
    ELSE Rank(a[1]) < Rank(b[1])

\* an order by iteration name first
lessBySprint(a, b) ==
    IF a.Sprint = b.Sprint
    THEN a.Timestamp < b.Timestamp
    ELSE TextLess(a.Sprint, b.Sprint)

\* the less function given to sort.Slice
less(a, b) ==
    IF a.Timestamp = b.Timestamp
    THEN TextLess(a.Sprint, b.Sprint)
    ELSE a.Timestamp < b.Timestamp

\* keys := the keys of counts; sort.Slice(keys, less)
RECURSIVE SortKeys(_)
SortKeys(pending) ==
    IF pending = {} THEN <<>>
    ELSE LET first == CHOOSE x \in pending : \A y \in pending \ {x} : ~less(y, x)
         IN <<first>> \o SortKeys(pending \ {first})

statusesToTrack ==
    << <<"Backlog">>, <<"In", " ", "Progress">>, <<"Review">>,
       <<"Testing">>, <<"Resolved">>, <<"Closed">> >>

headers == <<"timestamp", "sprint", "issue_count", "story_points">> \o statusesToTrack

\* fmt.Sprintf("%d", n): the decimal digits of n
SprintfD(n) == [verb |-> "%d", of |-> n]

\* fmt.Sprintf("%.1f", x): x with one decimal
SprintfF1(x) == [verb |-> "%.1f", of |-> x]

\* fmt.Sprintf("%d", statusCounts[k][s])
StatusCell(k, s) == SprintfD(MapGet(MapGet(statusCounts, k, EmptyMap), s, 0))

\* the data row of a bucket
Row(k) ==
    << k.Timestamp, k.Sprint,
       SprintfD(Cardinality(MapGet(counts, k, {}))),
       SprintfF1(MapGet(totalPoints, k, 0)) >>
    \o [i \in 1 .. Len(statusesToTrack) |-> StatusCell(k, statusesToTrack[i])]

\* the header and the data rows in the order of the sorted keys
Rows ==
    LET keys == SortKeys(DOMAIN counts)
    IN <<headers>> \o [i \in 1 .. Len(keys) |-> Row(keys[i])]

\* a row of the report as a line of its sink
CsvLine(row) == [kind |-> "csv", row |-> row]

\* the sink is the file named by -out (os.Create fails: log.Fatalf) or, with
\* -out unset, standard output; every row is written with its error dropped,
\* and the sink receives the first `delivered` rows after what it holds
WriteReport(createFails, delivered) ==
    /\ pc = "aggregated"
    /\ delivered \in 0 .. Len(Rows)
    /\ createFails => out # EmptyString
    /\ IF createFails
       THEN pc' = "fatal" /\ sinkError' = FALSE /\ UNCHANGED <<report, stdout>>
       ELSE /\ pc' = "done"
            /\ sinkError' = (delivered < Len(Rows))
            /\ IF out # EmptyString
               THEN /\ report' = SubSeq(Rows, 1, delivered)
                    /\ UNCHANGED stdout
               ELSE /\ stdout' = stdout \o [i \in 1 .. delivered |-> CsvLine(Rows[i])]
                    /\ UNCHANGED report
    /\ UNCHANGED <<intervalStr, sprintFilter, intervalDur, walkPos, nItems,
                   sprintWindows, sprintMeta, storyPoints, statuses,
                   counts, totalPoints, statusCounts, now, cache, changelog,
                   out, debugLog, others>>

----------------------------------------------------------------------------
(* The whole run over a directory: flags, walk, aggregation, report *)

\* history timestamps lie at 0 .. MaxSpan half granularity steps
MaxSpan == 5
\* the first join lies at 0 .. MaxJoin half granularity steps
MaxJoin == 2

\* the -interval values: the three the program knows and one it does not
IntervalInputs == IntervalNames \cup {"weekly"}

\* zone offsets of history timestamps: -0500, +0000, +0530
RunZoneOffsets == {0 - 5 * Hour, 0, 5 * Hour + 30 * Minute}

\* a well formed timestamp n half steps after a day boundary, written in zone z
RunCreated(n, z, d) == [layout |-> "ms-offset", abs |-> Day + n * (d \div 2), off |-> z]

\* time.Now() after the walk: later than every history timestamp, on a
\* boundary or half a step after it
RunNowSet(d) == { [abs |-> Day + n * (d \div 2), off |-> 0] : n \in {MaxSpan + 1, MaxSpan + 2} }

Entry(created, item) == [Created |-> created, Items |-> <<item>>]

\* what the first issue's changelog may start with: a status or an estimate
PreItems ==
    { HistoryItem("status", <<>>, <<"Closed">>),
      HistoryItem("Story Points", <<>>, <<"5">>) }

\* the sprint lists of the first join
JoinStrings == { <<"A">>, <<"B", ",", " ", "A">> }

\* the changelogs of the first issue: an optional first entry, a join at a
\* time that may not parse, an optional later change of the Sprint field
RunLogs(d) ==
    { pre \o <<Entry(c, HistoryItem("Sprint", <<>>, s))>> \o post :
        pre \in { <<>> } \cup { <<Entry(RunCreated(0, 0, d), it)>> : it \in PreItems },
        s \in JoinStrings,
        c \in { RunCreated(n, z, d) : n \in 0 .. MaxJoin, z \in RunZoneOffsets }
                \cup { BadCreated },
        post \in { <<>> }
                 \cup { <<Entry(RunCreated(n, 0, d), HistoryItem("Sprint", <<"A">>, t))>> :
                          n \in MaxJoin .. MaxSpan, t \in { <<>>, <<"B">> } } }

\* the second issue: resolved to its parent, or with a changelog of its own
RunChildren(d) ==
    { [issue |-> IssueRecord("X-2", "X-1", <<>>, RunCreated(1, 0, d)), log |-> <<>>],
      [issue |-> IssueRecord("X-2", "", <<>>, RunCreated(1, 0, d)),
       log |-> <<Entry(RunCreated(1, 0, d), HistoryItem("Sprint", <<>>, <<"B">>))>>] }

\* directories whose files are all there and parse
GoodCaches(d) ==
    { [issues |-> [k \in {"X-1", "X-2"} |->
                     IF k = "X-1" THEN IssueRecord("X-1", "", <<>>, RunCreated(0, 0, d))
                     ELSE ch.issue],
       changelogs |-> [k \in {"X-1", "X-2"} |-> IF k = "X-1" THEN l1 ELSE ch.log],
       malformed |-> {}] :
        l1 \in RunLogs(d), ch \in RunChildren(d) }

\* what can be wrong with the files of an issue
Faults == {"none", "no changelog", "bad changelog", "bad record"}

\* directories with a file missing or one that does not parse
FaultyCaches(d) ==
    { [issues |-> [k \in {"X-1", "X-2"} |->
                     IF k = "X-1" THEN IssueRecord("X-1", "", <<>>, RunCreated(0, 0, d))
                     ELSE IssueRecord("X-2", par, <<>>, RunCreated(1, 0, d))],
       changelogs |->
           [k \in {"X-1", "X-2"} \ ({ "X-1" : x \in { f1 } \cap {"no changelog"} }
                                     \cup { "X-2" : x \in { f2 } \cap {"no changelog"} }) |->
              <<Entry(RunCreated(0, 0, d),
                      HistoryItem("Sprint", <<>>, IF k = "X-1" THEN <<"A">> ELSE <<"B">>))>>],
       malformed |->
           { ChangelogFile("X-1") : x \in { f1 } \cap {"bad changelog"} }
           \cup { IssueFile("X-1") : x \in { f1 } \cap {"bad record"} }
           \cup { ChangelogFile("X-2") : x \in { f2 } \cap {"bad changelog"} }
           \cup { IssueFile("X-2") : x \in { f2 } \cap {"bad record"} }] :
        f1 \in Faults, f2 \in Faults, par \in {"", "X-9"} }

RunCaches(d) == GoodCaches(d) \cup FaultyCaches(d)

\* the -out values: unset, and a file
OutInputs == { EmptyString, <<"report.csv">> }

InitRunAny ==
    /\ intervalStr \in IntervalInputs
    /\ sprintFilter = EmptyString
    /\ out \in OutInputs
    /\ debugLog = FALSE
    /\ InitMaps
    /\ OthersIdle
    /\ cache \in RunCaches(parseInterval(intervalStr).dur)

\* the walk has returned without an error: the aggregation follows
AggregateWalked(nw) ==
    /\ walkPos = Len(IssueKeys)
    /\ Aggregate(nw)

NextRun ==
    \/ ParseInterval
    \/ WalkFile
    \/ \E nw \in RunNowSet(intervalDur) : AggregateWalked(nw)
    \/ \E createFails \in BOOLEAN, delivered \in 0 .. Len(Rows) :
          WriteReport(createFails, delivered)

SpecRun == InitRunAny /\ [][NextRun]_vars

----------------------------------------------------------------------------
(* Properties of the aggregation and the report *)

\* the window instances of the state, as <<pair, index>>
WindowInstances ==
    UNION { {p} \X (1 .. Len(sprintWindows[p])) : p \in DOMAIN sprintWindows }

WindowAt(pi) == sprintWindows[pi[1]][pi[2]]

\* the end the aggregation gives a window: its own, or the reference time
EndOf(pi) == IF WindowAt(pi).ToTime = Nil THEN now.abs ELSE WindowAt(pi).ToTime.abs

\* the granularity boundaries on the absolute time line the runs can meet
Boundaries == { Day + m * intervalDur : m \in (0 - 1) .. MaxSpan }

\* the boundaries a window covers: from the last one not after its start to
\* the last one not after its end
BoundariesOf(pi) ==
    { b \in Boundaries :
        b > WindowAt(pi).FromTime.abs - intervalDur /\ b <= EndOf(pi) }

\* the label of a boundary, written in the zone of the window's start
LabelOf(pi, b) == (b + WindowAt(pi).FromTime.off) \div intervalDur

\* C11: after the aggregation, a window that starts no later than its end and
\* whose end lies exactly on a granularity boundary has its item in the
\* bucket labelled with that boundary.
C11_EndBoundaryIncluded ==
    pc = "aggregated"
    => \A pi \in WindowInstances :
          (WindowAt(pi).FromTime.abs <= EndOf(pi) /\ EndOf(pi) \in Boundaries)
          => LET kk == key(LabelOf(pi, EndOf(pi)), pi[1].Sprint)
             IN /\ kk \in DOMAIN counts /\ pi[1].IssueKey \in counts[kk]
                /\ kk \in DOMAIN totalPoints /\ kk \in DOMAIN statusCounts

\* a window that starts off a boundary and was closed on a later boundary has
\* been aggregated
C11_Witness ==
    /\ pc = "aggregated"
    /\ \E pi \in WindowInstances :
          /\ WindowAt(pi).ToTime # Nil
          /\ WindowAt(pi).ToTime.abs \in Boundaries
          /\ WindowAt(pi).FromTime.abs < WindowAt(pi).ToTime.abs
          /\ WindowAt(pi).FromTime.abs \notin Boundaries
          /\ key(LabelOf(pi, EndOf(pi)), pi[1].Sprint) \in DOMAIN counts

\* C12: after the aggregation of windows that start no later than they end,
\* a window stands in exactly the buckets of the boundaries it covers, one
\* label per boundary and the labels without a gap: the buckets are the
\* labels of the covered boundaries and nothing else, and each holds the items
\* of the windows covering it.
C12_BucketsOfWindow ==
    (pc = "aggregated" /\ \A pi \in WindowInstances : WindowAt(pi).FromTime.abs <= EndOf(pi))
    => /\ DOMAIN counts =
            UNION { { key(LabelOf(pi, b), pi[1].Sprint) : b \in BoundariesOf(pi) } :
                      pi \in WindowInstances }
       /\ \A kk \in DOMAIN counts :
             counts[kk] = { pi[1].IssueKey :
                              pi \in { x \in WindowInstances :
                                         /\ x[1].Sprint = kk.Sprint
                                         /\ \E b \in BoundariesOf(x) : LabelOf(x, b) = kk.Timestamp } }
       /\ \A pi \in WindowInstances :
             LET labels == { LabelOf(pi, b) : b \in BoundariesOf(pi) }
             IN /\ Cardinality(labels) = Cardinality(BoundariesOf(pi))
                /\ \A l \in labels : \A m \in labels :
                      \A x \in l .. m : x \in labels

\* a daily window written in UTC from the middle of the first day to the
\* middle of the third has been aggregated into the buckets of the three days
\* and no other
C12_Witness ==
    /\ pc = "aggregated" /\ intervalStr = "daily"
    /\ SprintKey("X-2", <<"A">>) \notin DOMAIN sprintWindows
    /\ SprintKey("X-1", <<"A">>) \in DOMAIN sprintWindows
    /\ sprintWindows[SprintKey("X-1", <<"A">>)] =
          << [FromTime |-> [abs |-> Day + Day \div 2, off |-> 0],
              ToTime |-> [abs |-> 3 * Day + Day \div 2, off |-> 0]] >>
    /\ { kk \in DOMAIN counts : kk.Sprint = <<"A">> } = { key(l, <<"A">>) : l \in 1 .. 3 }

----------------------------------------------------------------------------
(* Properties of the error paths *)

\* the maps of the replay are as they were
ReplayUnchanged ==
    /\ sprintWindows' = sprintWindows /\ sprintMeta' = sprintMeta
    /\ storyPoints' = storyPoints /\ statuses' = statuses

\* C13: an item whose changelog file is not in the cache is skipped and the
\* walk goes on to the remaining items.
C13_MissingChangelogSkipped ==
    [][(/\ CallbackStep
        /\ ~ReadIssueFails(cache, Entered.Key)
        /\ Entered.Key \notin DOMAIN cache.changelogs)
       => pc' = "walk" /\ ReplayUnchanged]_vars

\* C14: an item whose record or whose changelog does not parse is skipped: the
\* windows built so far are kept and the walk goes on to the remaining items.
C14_MalformedSkipped ==
    [][(/\ CallbackStep
        /\ \/ IssueFile(Entered.Key) \in cache.malformed
           \/ ChangelogFile(Entered.Key) \in cache.malformed)
       => pc' = "walk" /\ ReplayUnchanged]_vars

\* the entries of a changelog whose timestamp is in the fixed format
WellFormedEntries(log) == SelectSeq(log, LAMBDA h : h.Created.layout = "ms-offset")

\* C15: an entry whose timestamp does not parse has no effect: a callback that
\* replays a changelog leaves the windows, the snapshots and both trackers as
\* the replay of the changelog without those entries does.
C15_BadTimestampDropped ==
    [][(CallbackStep /\ pc' = "walk")
       => LET st == HistoriesLoop(ReplayState, Entered.Key,
                                  WellFormedEntries(changelog'), 1, sprintFilter)
          IN /\ sprintWindows' = st.w /\ sprintMeta' = st.m
             /\ storyPoints' = st.sp /\ statuses' = st.stt]_vars

\* the first issue's changelog of three entries had a join at a time that does
\* not parse between a status change and a leave: the status is tracked and
\* the issue has no window
C15_Witness ==
    /\ walkPos = 1 /\ pc = "walk"
    /\ Len(changelog) = 3
    /\ changelog[2].Created = BadCreated
    /\ changelog[2].Items[1].Field = "Sprint"
    /\ MapGet(statuses, "X-1", EmptyString) = <<"Closed">>
    /\ sprintWindows = EmptyMap

\* C16: with an -interval value other than daily, hourly and minutely the run
\* never leaves its start but to the fatal exit: no file is entered, nothing
\* is replayed or aggregated and no row is written.
C16_InvalidIntervalFatal ==
    intervalStr \notin {"daily", "hourly", "minutely"}
    => /\ pc \in {"start", "fatal"}
       /\ walkPos = 0 /\ changelog = <<>>
       /\ sprintWindows = EmptyMap /\ sprintMeta = EmptyMap
       /\ storyPoints = EmptyMap /\ statuses = EmptyMap
       /\ counts = EmptyMap /\ now = Nil
       /\ report = <<>> /\ stdout = <<>>

\* the run has ended at the fatal exit for the interval "weekly"
C16_Witness ==
    /\ intervalStr = "weekly"
    /\ pc = "fatal"
    /\ DOMAIN cache.changelogs = {"X-1", "X-2"}
    /\ cache.malformed = {}

\* C17: a run whose sink failed on a write does not end as a success.
C17_SinkFailureFatal ==
    sinkError => pc # "done"

\* the report is complete in the sink
Delivered == pc = "done" /\ ~sinkError

\* what the sink of the report holds: standard output when -out is unset,
\* the file it names otherwise
Sink ==
    IF out = EmptyString THEN stdout
    ELSE [i \in 1 .. Len(report) |-> CsvLine(report[i])]

\* the rows of the report among the lines of the sink, in their order
IsCsv(line) == line.kind = "csv"
SinkRows ==
    LET lines == SelectSeq(Sink, IsCsv) IN [i \in 1 .. Len(lines) |-> lines[i].row]

\* the bucket key of a data row
KeyOfRow(row) == key(row[1], row[2])

\* C18: in a delivered report the data rows are strictly ascending by label
\* first and iteration name second, and every bucket key of the aggregation
\* has exactly one row.
C18_RowsSorted ==
    Delivered
    => /\ Len(SinkRows) = 1 + Cardinality(DOMAIN counts)
       /\ { KeyOfRow(SinkRows[i]) : i \in 2 .. Len(SinkRows) } = DOMAIN counts
       /\ DOMAIN totalPoints = DOMAIN counts /\ DOMAIN statusCounts = DOMAIN counts
       /\ \A i \in 2 .. Len(SinkRows) - 1 :
             \/ SinkRows[i][1] < SinkRows[i + 1][1]
             \/ /\ SinkRows[i][1] = SinkRows[i + 1][1]
                /\ TextLess(SinkRows[i][2], SinkRows[i + 1][2])

\* a report delivered to standard output where B of one label is followed by
\* A of a later label, and A and B share a label
C18_Witness ==
    /\ Delivered
    /\ out = EmptyString
    /\ \E i \in 2 .. Len(SinkRows) - 1 :
          /\ SinkRows[i][2] = <<"B">> /\ SinkRows[i + 1][2] = <<"A">>
          /\ SinkRows[i][1] < SinkRows[i + 1][1]
    /\ \E i \in 2 .. Len(SinkRows) - 1 :
          /\ SinkRows[i][1] = SinkRows[i + 1][1]
          /\ SinkRows[i][2] = <<"A">> /\ SinkRows[i + 1][2] = <<"B">>

\* C20: what a delivered report leaves in its sink is the header row,
\* timestamp, sprint, issue_count, story_points and the six tracked statuses
\* in their fixed order, then one row per bucket; the column of a tracked
\* status holds the bucket's count of that status, 0 when the bucket has none.
C20_ReportShape ==
    Delivered
    => /\ Len(Sink) = 1 + Cardinality(DOMAIN counts)
       /\ Sink[1] = CsvLine(<< "timestamp", "sprint", "issue_count", "story_points",
                               <<"Backlog">>, <<"In", " ", "Progress">>, <<"Review">>,
                               <<"Testing">>, <<"Resolved">>, <<"Closed">> >>)
       /\ \A i \in 2 .. Len(Sink) :
             /\ Sink[i].kind = "csv"
             /\ LET row == Sink[i].row
                    k == KeyOfRow(row)
                IN /\ k \in DOMAIN counts
                   /\ Len(row) = 10
                   /\ row[3].of = Cardinality(counts[k])
                   /\ row[4].of = totalPoints[k]
                   /\ \A j \in 1 .. 6 :
                         /\ row[4 + j].verb = "%d"
                         /\ row[4 + j].of =
                              IF statusesToTrack[j] \in DOMAIN statusCounts[k]
                              THEN statusCounts[k][statusesToTrack[j]]
                              ELSE 0

----------------------------------------------------------------------------
(* The filtered run against the unfiltered one *)

\* the maps of the replay after the callbacks of the first n files, under a
\* given filter: a callback that returns an error ends the walk, and no file
\* after it is entered
RECURSIVE WalkedTo(_, _, _)
WalkedTo(c, n, filter) ==
    IF n = 0
    THEN [w |-> EmptyMap, m |-> EmptyMap, sp |-> EmptyMap, stt |-> EmptyMap,
          err |-> FALSE]
    ELSE LET prev == WalkedTo(c, n - 1, filter)
             iss == c.issues[IssueKeys[n]]
             r == IF ReadIssueFails(c, iss.Key)
                  THEN [err |-> TRUE, log |-> <<>>]
                  ELSE ResolveChangelog(c, iss)
             maps == [w |-> prev.w, m |-> prev.m, sp |-> prev.sp, stt |-> prev.stt]
         IN IF prev.err THEN prev
            ELSE IF r.err THEN [prev EXCEPT !.err = TRUE]
            ELSE LET next == HistoriesLoop(maps, ReplayKey(iss), r.log, 1, filter)
                 IN [w |-> next.w, m |-> next.m, sp |-> next.sp, stt |-> next.stt,
                     err |-> FALSE]

\* a map of pairs or of buckets cut down to one iteration name
OnlySprint(f, name) == [k \in { x \in DOMAIN f : x.Sprint = name } |-> f[k]]

\* C19: while a run with the filter F walks the directory, its windows and
\* snapshots are those of the run without a filter cut down to F, and so are
\* the buckets an aggregation at that point gives: nothing exists for another
\* name, and what exists for F is the same.
C19_FilterRestricts ==
    (sprintFilter # EmptyString /\ pc = "walk")
    => LET u == WalkedTo(cache, walkPos, EmptyString) IN
       /\ sprintWindows = OnlySprint(u.w, sprintFilter)
       /\ sprintMeta = OnlySprint(u.m, sprintFilter)
       /\ \A nw \in NowSet(intervalDur) :
             LET mine == Aggregated(sprintWindows, sprintMeta, nw, intervalDur)
                 all == Aggregated(u.w, u.m, nw, intervalDur)
             IN /\ mine.counts = OnlySprint(all.counts, sprintFilter)
                /\ mine.totalPoints = OnlySprint(all.totalPoints, sprintFilter)
                /\ mine.statusCounts = OnlySprint(all.statusCounts, sprintFilter)

\* both issues were walked with the filter A where the run without a filter
\* has windows of B as well, and the move from A to B closed the window of A
C19_Witness ==
    /\ sprintFilter = <<"A">> /\ pc = "walk" /\ walkPos = 2
    /\ \E k \in DOMAIN WalkedTo(cache, 2, EmptyString).w : k.Sprint = <<"B">>
    /\ \E k \in DOMAIN sprintWindows :
          sprintWindows[k][Len(sprintWindows[k])].ToTime # Nil
    /\ \A k \in DOMAIN sprintWindows : k.Sprint = <<"A">>

----------------------------------------------------------------------------
(* The replay of one issue's changelog, item by item, with the entries *)
(* replayed so far kept in changelog                                    *)

\* change items replayed for the issue
MaxLog == 4

\* the change items of the issue's history: a join and a leave of A, two
\* estimates, an estimate that is no number, an estimate and a status taken
\* away, and a status
LogItems ==
    { HistoryItem("Sprint", <<>>, <<"A">>),
      HistoryItem("Sprint", <<"A">>, <<>>),
      HistoryItem("Story Points", <<>>, <<"3">>),
      HistoryItem("Story Points", <<>>, <<"5">>),
      HistoryItem("Story Points", <<>>, <<"x">>),
      HistoryItem("Story Points", <<"5">>, <<>>),
      HistoryItem("status", <<>>, <<"Closed">>),
      HistoryItem("status", <<"Closed">>, <<>>) }

\* the entry times, in any order
LogCreated(d) == { GoodCreated(n, d) : n \in 0 .. MaxTime }

\* the walk enters the first issue file
VisitFirst ==
    /\ walkPos = 0
    /\ VisitFile

\* the next change item of the issue's changelog is replayed: the first item
\* of a fresh entry, or one more item of the entry the loop over h.Items is in
ReplayLogged(created, item, fresh) ==
    /\ pc = "walk"
    /\ walkPos = 1
    /\ nItems < MaxLog
    /\ fresh \/ (changelog # <<>> /\ changelog[Len(changelog)].Created = created)
    /\ ReplayEffects(created, item)
    /\ nItems' = nItems + 1
    /\ changelog' = IF fresh THEN Append(changelog, Entry(created, item))
                    ELSE [changelog EXCEPT ![Len(changelog)].Items = Append(@, item)]
    /\ UNCHANGED <<intervalStr, sprintFilter, intervalDur, pc, walkPos,
                   counts, totalPoints, statusCounts, now, cache,
                   report, sinkError, out, debugLog, others>>

InitHistory ==
    /\ intervalStr = "daily"
    /\ sprintFilter = EmptyString
    /\ out = EmptyString
    /\ debugLog = FALSE
    /\ InitMaps
    /\ OthersIdle
    /\ cache = EmptyMap

NextHistory ==
    \/ ParseInterval
    \/ VisitFirst
    \/ \E created \in LogCreated(intervalDur), item \in LogItems, fresh \in BOOLEAN :
          ReplayLogged(created, item, fresh)

SpecHistory == InitHistory /\ [][NextHistory]_vars

----------------------------------------------------------------------------
(* Properties of the replay of one changelog *)

\* the step replays one more change item of the changelog
LoggedStep == pc = "walk" /\ walkPos = 1 /\ nItems' = nItems + 1

\* the entry that step is in, and the item it replays
LastEntry == changelog'[Len(changelog')]
LastItem == LastEntry.Items[Len(LastEntry.Items)]

\* the step replays a leave of the name: a Sprint item at a time that parses
\* whose previous list holds the name and whose new list does not
LeaveOf(name) ==
    /\ LoggedStep
    /\ LastItem.Field = "Sprint"
    /\ LastEntry.Created.layout = "ms-offset"
    /\ name \in TokenSet(LastItem.FromString) \ TokenSet(LastItem.ToString)

\* the indexes of the windows of a list whose end is unset
OpenIndexes(windows) == { i \in 1 .. Len(windows) : windows[i].ToTime = Nil }

Highest(S) == CHOOSE i \in S : \A j \in S : j <= i

\* C21: a leave of a name at time t sets the end of the pair's most recently
\* opened window among those still open to t and changes no other window;
\* with no open window the list stays as it is.
C21_LeaveClosesLatestOpen ==
    [][\A name \in { <<"A">>, <<"B">> } :
          LeaveOf(name)
          => LET k == SprintKey(IssueKeys[walkPos], name)
                 old == WindowsOf(sprintWindows, k)
                 new == WindowsOf(sprintWindows', k)
                 t == [abs |-> LastEntry.Created.abs, off |-> LastEntry.Created.off]
             IN IF OpenIndexes(old) = {}
                THEN new = old
                ELSE new = [old EXCEPT ![Highest(OpenIndexes(old))].ToTime = t]]_vars

\* C22: in every step a pair keeps its windows and may get more at the end;
\* no start changes, no end that is set changes, and an end is set only by a
\* leave of the pair's name, to the time of that leave.
C22_AppendOnlyCloseOnce ==
    [][\A k \in DOMAIN sprintWindows :
          /\ k \in DOMAIN sprintWindows'
          /\ Len(sprintWindows'[k]) >= Len(sprintWindows[k])
          /\ \A i \in 1 .. Len(sprintWindows[k]) :
                LET old == sprintWindows[k][i]
                    new == sprintWindows'[k][i]
                IN /\ new.FromTime = old.FromTime
                   /\ old.ToTime # Nil => new.ToTime = old.ToTime
                   /\ (old.ToTime = Nil /\ new.ToTime # Nil)
                      => /\ LoggedStep
                         /\ LastItem.Field = "Sprint"
                         /\ k.Sprint \in TokenSet(LastItem.FromString)
                         /\ new.ToTime.abs = LastEntry.Created.abs]_vars

\* four items were replayed and the pair has two windows, both closed, the
\* first one before the second was opened
C22_Witness ==
    /\ nItems = 4
    /\ \E k \in DOMAIN sprintWindows :
          /\ Len(sprintWindows[k]) = 2
          /\ sprintWindows[k][1].ToTime # Nil /\ sprintWindows[k][2].ToTime # Nil
          /\ k.Sprint = <<"A">>

----------------------------------------------------------------------------
(* The walk in another order of the files *)

\* the maps of the replay after the callbacks of the files of order, one after
\* the other
RECURSIVE WalkedIn(_, _, _, _)
WalkedIn(c, order, n, filter) ==
    IF n = 0
    THEN [w |-> EmptyMap, m |-> EmptyMap, sp |-> EmptyMap, stt |-> EmptyMap]
    ELSE LET prev == WalkedIn(c, order, n - 1, filter)
             iss == c.issues[order[n]]
             r == IF ReadIssueFails(c, iss.Key)
                  THEN [err |-> TRUE, log |-> <<>>]
                  ELSE ResolveChangelog(c, iss)
         IN IF r.err THEN prev
            ELSE HistoriesLoop(prev, ReplayKey(iss), r.log, 1, filter)

\* a map of pairs cut down to one issue
OnlyIssue(f, k) == [x \in { y \in DOMAIN f : y.IssueKey = k } |-> f[x]]

\* the files of the directory in the opposite order
Reversed == [i \in 1 .. Len(IssueKeys) |-> IssueKeys[Len(IssueKeys) + 1 - i]]

\* C23: when every file of the directory was walked, the windows and the
\* snapshots of each issue are those a walk of that issue alone gives, and the
\* whole maps are those of the walk in the opposite order of the files: what
\* was replayed for another issue before, its parent included, changes nothing.
C23_NoLeakBetweenItems ==
    (pc = "walk" /\ walkPos = Len(IssueKeys))
    => /\ \A i \in 1 .. Len(IssueKeys) :
             LET alone == WalkedIn(cache, <<IssueKeys[i]>>, 1, sprintFilter) IN
             /\ OnlyIssue(sprintWindows, IssueKeys[i]) = alone.w
             /\ OnlyIssue(sprintMeta, IssueKeys[i]) = alone.m
       /\ LET rev == WalkedIn(cache, Reversed, Len(IssueKeys), sprintFilter) IN
          /\ sprintWindows = rev.w
          /\ sprintMeta = rev.m

\* both issues were walked: the first had the estimate 5 at its first join and
\* keeps it as running estimate, the second, walked after it, joined with no
\* estimate of its own
C23_Witness ==
    /\ pc = "walk" /\ walkPos = Len(IssueKeys)
    /\ MapGet(storyPoints, "X-1", 0) = 5
    /\ \E k \in DOMAIN sprintMeta : k.IssueKey = "X-1" /\ sprintMeta[k].Points = 5
    /\ \E k \in DOMAIN sprintMeta : k.IssueKey = "X-2" /\ sprintMeta[k].Points = 0
    /\ cache.issues["X-2"].Parent = "X-1"

----------------------------------------------------------------------------
(* The issue's own changelog with a Sprint item *)

\* some item of some entry of a changelog has the field name Sprint
SprintItemIn(log) ==
    \E i \in 1 .. Len(log) :
        \E j \in 1 .. Len(log[i].Items) : log[i].Items[j].Field = "Sprint"

\* C24: an issue whose own changelog holds a Sprint item is replayed from
\* exactly that changelog, every entry in its place, whatever its parent's
\* changelog holds, also when that file is missing, and whatever its current
\* sprints are.
C24_OwnChangelogAsIs ==
    [][(/\ CallbackStep
        /\ HasLog(Entered.Key)
        /\ SprintItemIn(cache.changelogs[Entered.Key]))
       => LET log == cache.changelogs[Entered.Key]
              st == HistoriesLoop(ReplayState, Entered.Key, log, 1, sprintFilter)
          IN /\ changelog' = log
             /\ pc' = "walk"
             /\ sprintWindows' = st.w /\ sprintMeta' = st.m]_vars

\* the second issue was replayed from its own changelog, a join of B, although
\* its parent's changelog has Sprint items of A and it is in A at present
C24_Witness ==
    /\ walkPos = 2 /\ pc = "walk"
    /\ cache.issues["X-2"].Parent = "X-1"
    /\ Len(cache.issues["X-2"].Sprints) > 0
    /\ HasLog("X-2") /\ changelog = cache.changelogs["X-2"]
    /\ Len(changelog) = 1 /\ changelog[1].Items[1].Field = "Sprint"
    /\ SprintItemIn(cache.changelogs["X-1"])
    /\ changelog # cache.changelogs["X-1"]

----------------------------------------------------------------------------
(* A parent whose changelog is not in the directory *)

\* C25: an issue with no Sprint item in its own changelog that names a parent
\* whose changelog file is missing is still processed, from the synthetic
\* changelog when it has current sprints and from its own changelog, which
\* opens no window, when it has none; the walk goes on.
C25_MissingParentFallsThrough ==
    [][(/\ CallbackStep
        /\ HasLog(Entered.Key)
        /\ ~SprintItemIn(cache.changelogs[Entered.Key])
        /\ Entered.Parent # "" /\ ~HasLog(Entered.Parent))
       => /\ pc' = "walk"
          /\ changelog' = IF Len(Entered.Sprints) > 0 THEN ToChangelog(Entered)
                          ELSE cache.changelogs[Entered.Key]]_vars

----------------------------------------------------------------------------
(* The running estimate and the running status *)

\* the change items of a changelog in the order the loops reach them
RECURSIVE ItemsInOrder(_, _)
ItemsInOrder(log, i) ==
    IF i > Len(log) THEN <<>> ELSE log[i].Items \o ItemsInOrder(log, i + 1)

\* the running estimate and the running status of the issue being replayed, as
\* a join reads them
Estimate(sp) == MapGet(sp, "X-1", 0)
Status(stt) == MapGet(stt, "X-1", EmptyString)

\* C26: the running estimate and the running status are 0 and the empty text
\* before the first item; replaying an item sets the estimate to the item's
\* new value when the item is an estimate change with a new value that is not
\* empty and is a number, and leaves it as it was otherwise; it sets the status
\* to the item's new value when the item is a status change with a new value
\* that is not empty, and leaves it as it was otherwise.
C26_TrackerUpdates ==
    [][LoggedStep
       => /\ nItems = 0 => (Estimate(storyPoints) = 0 /\ Status(statuses) = EmptyString)
          /\ Estimate(storyPoints') =
               IF /\ LastItem.Field = "Story Points"
                  /\ LastItem.ToString # EmptyString
                  /\ ParseFloatOk(LastItem.ToString)
               THEN ParseFloat(LastItem.ToString)
               ELSE Estimate(storyPoints)
          /\ Status(statuses') =
               IF LastItem.Field = "status" /\ LastItem.ToString # EmptyString
               THEN LastItem.ToString
               ELSE Status(statuses)]_vars

\* an estimate of 5, an estimate that is no number, a status and a status with
\* an empty new value were replayed: the estimate is 5 and the status is kept
C26_Witness ==
    /\ nItems = 4
    /\ ItemsInOrder(changelog, 1) =
         << HistoryItem("Story Points", <<>>, <<"5">>),
            HistoryItem("Story Points", <<>>, <<"x">>),
            HistoryItem("status", <<>>, <<"Closed">>),
            HistoryItem("status", <<"Closed">>, <<>>) >>
    /\ Estimate(storyPoints) = 5
    /\ Status(statuses) = <<"Closed">>

----------------------------------------------------------------------------
(* The snapshot of a pair against the items replayed before its first join *)

\* the places of the items, in replay order, that join a name
JoinsOf(items, name) ==
    { i \in 1 .. Len(items) :
        items[i].Field = "Sprint" /\ name \in TokenSet(items[i].ToString) }

Lowest(S) == CHOOSE i \in S : \A j \in S : i <= j

\* the places before place j of the estimate changes with a number as new
\* value, and of the status changes with a new value
EstimatesBefore(items, j) ==
    { i \in 1 .. j - 1 :
        /\ items[i].Field = "Story Points"
        /\ items[i].ToString # EmptyString
        /\ ParseFloatOk(items[i].ToString) }
StatusesBefore(items, j) ==
    { i \in 1 .. j - 1 : items[i].Field = "status" /\ items[i].ToString # EmptyString }

\* C27: the snapshot of a pair holds the new value of the last estimate change
\* and of the last status change among the items replayed before the item of
\* the pair's first join, items of the same entry that come before it
\* included; 0 and the empty text when there is none. Items after the join
\* item, of the same entry or of later ones, change nothing of it.
C27_SnapshotAtFirstJoin ==
    (pc = "walk" /\ walkPos = 1)
    => \A k \in DOMAIN sprintMeta :
          LET items == ItemsInOrder(changelog, 1)
              j == Lowest(JoinsOf(items, k.Sprint))
              es == EstimatesBefore(items, j)
              ss == StatusesBefore(items, j)
          IN /\ JoinsOf(items, k.Sprint) # {}
             /\ sprintMeta[k].Points =
                  IF es = {} THEN 0 ELSE ParseFloat(items[Highest(es)].ToString)
             /\ sprintMeta[k].Status =
                  IF ss = {} THEN EmptyString ELSE items[Highest(ss)].ToString

\* one entry of four items: an estimate of 5, an estimate of 3, the join, an
\* estimate of 5; the snapshot holds 3 and the running estimate is 5
C27_Witness ==
    /\ nItems = 4 /\ Len(changelog) = 1
    /\ changelog[1].Items =
         << HistoryItem("Story Points", <<>>, <<"5">>),
            HistoryItem("Story Points", <<>>, <<"3">>),
            HistoryItem("Sprint", <<>>, <<"A">>),
            HistoryItem("Story Points", <<>>, <<"5">>) >>
    /\ sprintMeta[SprintKey("X-1", <<"A">>)].Points = 3
    /\ Estimate(storyPoints) = 5

----------------------------------------------------------------------------
(* The issue count and the status histogram of a bucket *)

\* C28: after the aggregation the buckets with issues are the covered ones,
\* and the issues of a bucket are the issue keys of the pairs with a window of
\* the bucket's sprint covering it: its issue count is the number of those
\* keys, an issue with several covering windows counted once.
C28_DistinctIssues ==
    pc = "aggregated"
    => /\ DOMAIN counts = { kk \in Buckets : Covering(kk) # {} }
       /\ \A kk \in DOMAIN counts :
             /\ counts[kk] = { p.IssueKey : p \in CoveringPairs(kk) }
             /\ Cardinality(counts[kk])
                  = Cardinality({ i \in { IssueKeys[n] : n \in 1 .. Len(IssueKeys) } :
                                    \E pi \in Covering(kk) : pi[1].IssueKey = i })

\* a bucket covered by three windows of two issues has the issue count 2
C28_Witness ==
    /\ pc = "aggregated"
    /\ \E kk \in DOMAIN counts :
          /\ Cardinality(Covering(kk)) = 3
          /\ Cardinality(counts[kk]) = 2

\* the sum of the counts of a histogram over a set of statuses
RECURSIVE SumOfCounts(_, _)
SumOfCounts(row, S) ==
    IF S = {} THEN 0
    ELSE LET x == CHOOSE y \in S : TRUE
         IN row[x] + SumOfCounts(row, S \ {x})

HistogramSum(kk) ==
    LET row == MapGet(statusCounts, kk, EmptyMap) IN SumOfCounts(row, DOMAIN row)

IssueCount(kk) == Cardinality(MapGet(counts, kk, {}))

\* C29: after the aggregation every bucket of any of the three maps has an
\* issue count of at least 1 and a histogram whose counts add up to at least
\* the issue count, and to exactly the issue count when no pair has more than
\* one window covering the bucket.
C29_HistogramCoversIssues ==
    pc = "aggregated"
    => \A kk \in DOMAIN counts \cup DOMAIN totalPoints \cup DOMAIN statusCounts :
          /\ IssueCount(kk) >= 1
          /\ HistogramSum(kk) >= IssueCount(kk)
          /\ (\A p \in CoveringPairs(kk) :
                 Cardinality({ pi \in Covering(kk) : pi[1] = p }) = 1)
             => HistogramSum(kk) = IssueCount(kk)

\* one bucket has two issues with one window each and a histogram that adds
\* up to 2, another has one issue with two windows and a histogram of 2
C29_Witness ==
    /\ pc = "aggregated"
    /\ \E kk \in DOMAIN counts :
          /\ IssueCount(kk) = 2 /\ Cardinality(Covering(kk)) = 2 /\ HistogramSum(kk) = 2
    /\ \E kk \in DOMAIN counts :
          /\ IssueCount(kk) = 1 /\ Cardinality(Covering(kk)) = 2 /\ HistogramSum(kk) = 2

----------------------------------------------------------------------------
(* Windows of a history in the order of time *)

\* the entries of a changelog come in non-decreasing order of their times
InTimeOrder(log) ==
    \A i \in 1 .. Len(log) : \A j \in i .. Len(log) :
        log[i].Created.abs <= log[j].Created.abs

\* C30: while the entries replayed for an issue are in non-decreasing order of
\* time, every window of the issue with an end starts at or before its end.
C30_StartBeforeEnd ==
    (pc = "walk" /\ walkPos = 1 /\ InTimeOrder(changelog))
    => \A k \in DOMAIN sprintWindows :
          \A i \in 1 .. Len(sprintWindows[k]) :
             sprintWindows[k][i].ToTime # Nil
             => sprintWindows[k][i].FromTime.abs <= sprintWindows[k][i].ToTime.abs

\* four entries in the order of time: a window closed later than it was opened
\* and a window opened and closed at one time
C30_Witness ==
    /\ nItems = 4 /\ Len(changelog) = 4 /\ InTimeOrder(changelog)
    /\ \E k \in DOMAIN sprintWindows :
          /\ Len(sprintWindows[k]) = 2
          /\ sprintWindows[k][1].ToTime # Nil
          /\ sprintWindows[k][1].FromTime.abs < sprintWindows[k][1].ToTime.abs
          /\ sprintWindows[k][2].ToTime # Nil
          /\ sprintWindows[k][2].FromTime.abs = sprintWindows[k][2].ToTime.abs

----------------------------------------------------------------------------
(* The bucket walk of one window, step by step *)

\* the windows a replay can leave: started at a half step, open or ended at a
\* half step, before the start as well
MaxHalf == 4
WalkWindows(d) ==
    { [FromTime |-> [abs |-> f * (d \div 2), off |-> 0], ToTime |-> e] :
        f \in 0 .. MaxHalf,
        e \in {Nil} \cup { [abs |-> n * (d \div 2), off |-> 0] : n \in 0 .. MaxHalf } }

\* the pair of the walk and the snapshots a replay can leave for it
LoopPair == SprintKey(IssueKeys[1], <<"A">>)
LoopMetas == { [Points |-> p, Status |-> st] : p \in {0, 5}, st \in StatusStrings }

\* the pair k and its snapshot meta := sprintMeta[k]
LoopKey == CHOOSE k \in DOMAIN sprintWindows : TRUE
LoopMeta == MapGet(sprintMeta, LoopKey, ZeroMeta)

\* the state when the aggregation reaches the first window of its first
\* pair: the three maps are empty, seen is empty, and the cursor is at
\* t := w.FromTime.Truncate(intervalDur)
InitBuckets ==
    /\ intervalStr \in IntervalNames
    /\ sprintFilter = EmptyString
    /\ intervalDur = parseInterval(intervalStr).dur
    /\ pc = "buckets"
    /\ walkPos = 0 /\ nItems = 0
    /\ sprintMeta \in { MapPut(EmptyMap, LoopPair, meta) : meta \in LoopMetas }
    /\ storyPoints = EmptyMap /\ statuses = EmptyMap
    /\ counts = EmptyMap /\ totalPoints = EmptyMap /\ statusCounts = EmptyMap
    /\ now \in NowSet(intervalDur)
    /\ cache = EmptyMap /\ changelog = <<>>
    /\ report = <<>> /\ sinkError = FALSE
    /\ out = EmptyString /\ debugLog = FALSE
    /\ SortIdle
    /\ GetIdle
    /\ UpdaterIdle
    /\ QueryIdle
    /\ loopW \in WalkWindows(intervalDur)
    /\ cursor = Truncate(loopW.FromTime, intervalDur)
    /\ loopLabels = {}
    /\ sprintWindows = MapPut(EmptyMap, LoopPair, <<loopW>>)
    /\ stdout = <<Dashes>> \o WindowLines(sprintWindows) \o <<Dashes>>

\* the loop condition holds: the body runs for the label of t and writes
\* counts, totalPoints (under seen, which holds the keys of the labels so
\* far) and statusCounts, then t = t.Add(intervalDur)
BucketBody ==
    /\ pc = "buckets"
    /\ ~After(cursor, WindowEnd(loopW, now))
    /\ LET acc == [counts |-> counts, totalPoints |-> totalPoints,
                   statusCounts |-> statusCounts,
                   seen |-> { key(l, LoopKey.Sprint) : l \in loopLabels }]
           next == BucketStep(acc, LoopKey, LoopMeta, cursor, intervalDur)
       IN  /\ counts' = next.counts
           /\ totalPoints' = next.totalPoints
           /\ statusCounts' = next.statusCounts
    /\ loopLabels' = loopLabels \cup {Format(cursor, intervalDur)}
    /\ cursor' = Add(cursor, intervalDur)
    /\ UNCHANGED <<pc, intervalStr, sprintFilter, intervalDur, walkPos, nItems,
                   sprintWindows, sprintMeta, storyPoints, statuses, now,
                   cache, changelog, report, sinkError, out, debugLog, stdout,
                   loopW, notLoop>>

\* the loop condition fails: the walk of the window is over
BucketExit ==
    /\ pc = "buckets"
    /\ After(cursor, WindowEnd(loopW, now))
    /\ pc' = "bucketsDone"
    /\ UNCHANGED <<trackerData, others>>

NextBuckets == BucketBody \/ BucketExit

\* the loop is sequential code: a step that can be taken is taken
SpecBuckets == InitBuckets /\ [][NextBuckets]_vars /\ WF_vars(NextBuckets)

\* the end of the walk and the first cursor of the window
LoopEnd == WindowEnd(loopW, now)
LoopStart == Truncate(loopW.FromTime, intervalDur)

\* C31: the bucket walk of a window comes to its end, whether the window is
\* closed, open or ends before it starts: the cursor only moves forward in
\* whole steps and never passes the end by more than one step, the buckets
\* written are those of the labels passed, and a window whose end is before
\* its truncated start gives no label and no bucket at all.
C31_BucketWalkTerminates ==
    /\ [](pc \in {"buckets", "bucketsDone"}
          => /\ cursor.abs >= LoopStart.abs
             /\ (cursor.abs - LoopStart.abs) % intervalDur = 0
             /\ cursor.abs <= LoopEnd.abs + intervalDur \/ cursor = LoopStart
             /\ Cardinality(loopLabels) = (cursor.abs - LoopStart.abs) \div intervalDur
             /\ DOMAIN counts = { key(l, LoopKey.Sprint) : l \in loopLabels }
             /\ DOMAIN totalPoints = DOMAIN counts
             /\ DOMAIN statusCounts = DOMAIN counts
             /\ LoopEnd.abs < LoopStart.abs
                    => /\ loopLabels = {}
                       /\ counts = EmptyMap
                       /\ totalPoints = EmptyMap
                       /\ statusCounts = EmptyMap)
    /\ <>(pc = "bucketsDone")

\* the walk of a closed window whose end is before its truncated start is
\* over and has given no label
C31_Witness ==
    /\ pc = "bucketsDone"
    /\ loopW.ToTime # Nil
    /\ loopW.ToTime.abs < LoopStart.abs
    /\ loopLabels = {}
    /\ counts = EmptyMap

----------------------------------------------------------------------------
(* tools.SortNumerically: issue keys as sequences of characters *)

\* the tracker has not started and nothing of it is in use
TrackerIdle ==
    /\ intervalStr = "daily"
    /\ sprintFilter = EmptyString
    /\ intervalDur = 0
    /\ walkPos = 0 /\ nItems = 0
    /\ sprintWindows = EmptyMap /\ sprintMeta = EmptyMap
    /\ storyPoints = EmptyMap /\ statuses = EmptyMap
    /\ counts = EmptyMap /\ totalPoints = EmptyMap /\ statusCounts = EmptyMap
    /\ now = Nil
    /\ cache = EmptyMap /\ changelog = <<>>
    /\ report = <<>> /\ sinkError = FALSE
    /\ out = EmptyString /\ debugLog = FALSE /\ stdout = <<>>

Digits == <<"0", "1", "2", "3", "4", "5", "6", "7", "8", "9">>
IsDigit(c) == \E i \in 1 .. 10 : Digits[i] = c
DigitValue(c) == (CHOOSE i \in 1 .. 10 : Digits[i] = c) - 1

\* the byte of a character
CharCode(c) ==
    CASE c = "-" -> 45
      [] IsDigit(c) -> 48 + DigitValue(c)
      [] c = "A" -> 65
      [] c = "B" -> 66
      [] c = "x" -> 120

\* Go's < on strings, byte by byte
RECURSIVE StringLess(_, _)
StringLess(a, b) ==
    IF Len(b) = 0 THEN FALSE
    ELSE IF Len(a) = 0 THEN TRUE
    ELSE IF a[1] = b[1] THEN StringLess(Tail(a), Tail(b))
    ELSE CharCode(a[1]) < CharCode(b[1])

\* strings.Cut(s, "-"): what follows the first "-", nothing when there is none
CutAfter(s) ==
    LET at == { i \in 1 .. Len(s) : s[i] = "-" } IN
    IF at = {} THEN <<>>
    ELSE SubSeq(s, (CHOOSE i \in at : \A j \in at : i <= j) + 1, Len(s))

\* strconv.Atoi: an optional sign and at least one digit, nothing else
AtoiDigits(s) == IF Len(s) > 0 /\ s[1] = "-" THEN Tail(s) ELSE s
AtoiOk(s) ==
    /\ Len(AtoiDigits(s)) > 0
    /\ \A i \in 1 .. Len(AtoiDigits(s)) : IsDigit(AtoiDigits(s)[i])

RECURSIVE DigitsValue(_)
DigitsValue(ds) ==
    IF Len(ds) = 0 THEN 0
    ELSE 10 * DigitsValue(SubSeq(ds, 1, Len(ds) - 1)) + DigitValue(ds[Len(ds)])

Atoi(s) == IF s[1] = "-" THEN 0 - DigitsValue(Tail(s)) ELSE DigitsValue(s)

\* the less function of SortNumerically: by the number after the first "-",
\* by the whole key when one of the two has no number there
lessNumerically(a, b) ==
    IF ~AtoiOk(CutAfter(a)) \/ ~AtoiOk(CutAfter(b)) THEN StringLess(a, b)
    ELSE Atoi(CutAfter(a)) < Atoi(CutAfter(b))

\* data.Swap(j, j-1)
SwapDown(list, j) == [list EXCEPT ![j] = list[j - 1], ![j - 1] = list[j]]

\* for j := i; j > a && less(j, j-1); j-- { swap }
RECURSIVE SinkDown(_, _)
SinkDown(list, j) ==
    IF j > 1 /\ lessNumerically(list[j], list[j - 1])
    THEN SinkDown(SwapDown(list, j), j - 1)
    ELSE list

\* sort.Slice on fewer than 12 elements: insertion sort, for i := a + 1; i < b
RECURSIVE InsertionSort(_, _)
InsertionSort(list, i) ==
    IF i > Len(list) THEN list
    ELSE InsertionSort(SinkDown(list, i), i + 1)

SortNumerically(list) == InsertionSort(list, 2)

\* the keys of the bounded runs
MaxKeys == 3
KeySet ==
    { <<"A", "-", "1">>, <<"A", "-", "2">>, <<"A", "-", "9">>,
      <<"A", "-", "1", "0">>, <<"B", "-", "1">>, <<"A", "-", "1", "x">> }

KeyLists == UNION { [1 .. n -> KeySet] : n \in 0 .. MaxKeys }

InitSort ==
    /\ pc = "sort"
    /\ TrackerIdle
    /\ LoopIdle
    /\ GetIdle
    /\ UpdaterIdle
    /\ QueryIdle
    /\ keysIn \in KeyLists
    /\ inList = keysIn

\* issueKeys = tools.SortNumerically(issueKeys)
Sort ==
    /\ pc = "sort"
    /\ inList' = SortNumerically(inList)
    /\ pc' = "sorted"
    /\ UNCHANGED <<trackerData, keysIn, notSort>>

NextSort == Sort

SpecSort == InitSort /\ [][NextSort]_vars

\* the keys are a project, "-" and a number
WellFormedKey(k) ==
    /\ Len(k) >= 3
    /\ k[1] \in {"A", "B"} /\ k[2] = "-"
    /\ \A i \in 3 .. Len(k) : IsDigit(k[i])

\* the number of a well formed key
NumberOf(k) == DigitsValue(SubSeq(k, 3, Len(k)))

\* one list is the other in another arrangement
Occurs(list, k) == Cardinality({ i \in 1 .. Len(list) : list[i] = k })
Rearranged(a, b) == Len(a) = Len(b) /\ \A k \in KeySet : Occurs(a, k) = Occurs(b, k)

\* C32: SortNumerically gives the keys it got in another arrangement; when
\* all of them are a project, "-" and a number, they come in ascending order
\* of the number; and every arrangement of the same keys, whatever they are,
\* is sorted to the same list.
C32_SortedTheSameWay ==
    pc = "sorted"
    => /\ Rearranged(keysIn, inList)
       /\ (\A i \in 1 .. Len(keysIn) : WellFormedKey(keysIn[i]))
          => \A i \in 1 .. Len(inList) - 1 : NumberOf(inList[i]) <= NumberOf(inList[i + 1])
       /\ \A other \in { l \in KeyLists : Rearranged(l, keysIn) } :
             SortNumerically(other) = inList

----------------------------------------------------------------------------
(* jira.DoGetWithRetry: one request per step *)

\* fmt.Sprintf("%d", n) for n >= 0
RECURSIVE SprintfDigits(_)
SprintfDigits(n) ==
    IF n < 10 THEN <<Digits[n + 1]>>
    ELSE SprintfDigits(n \div 10) \o <<Digits[(n % 10) + 1]>>

\* a character a url must not hold
ControlChar == "\n"

\* fmt.Sprintf("%s/rest/api/2/issue/%s?expand=changelog", baseURL, issueKey)
IssueURL(issueKey) == <<"https://host/rest/api/", "2", "/issue/">> \o issueKey \o <<"?expand=changelog">>

\* http.NewRequest fails on a url with a control character
NewRequestOk(u) == \A i \in 1 .. Len(u) : u[i] # ControlChar

\* the outcomes of http.DefaultClient.Do: no response at all, or a response
\* with a status and a body, whose read fails or not
TransportError == [transport |-> TRUE, status |-> 0, body |-> <<>>, readErr |-> FALSE]
Response(status, body, readErr) ==
    [transport |-> FALSE, status |-> status, body |-> body, readErr |-> readErr]

\* a body that is an issue with its changelog, one that is an issue without,
\* one that is no JSON, and the text of an error page that names a number
IssueBody == <<"{", "key", "changelog", "}">>
BareIssueBody == <<"{", "key", "}">>
BrokenBody == <<"<html>">>
ErrorPage == <<"ticket ", "1", "4", "0", "3", "5">>

ResponseSet ==
    {TransportError}
    \cup { Response(st, <<>>, FALSE) : st \in {429, 404, 403, 500} }
    \cup { Response(500, ErrorPage, FALSE) }
    \cup { Response(200, b, e) : b \in {IssueBody, BareIssueBody, BrokenBody}, e \in BOOLEAN }

\* a nil body and a nil error
NoBody == <<>>
NoError == <<>>

\* the value DoGetWithRetry returns
Returned(body, err) == [body |-> body, err |-> err]

\* a loop that tries again after any status but 200
RetryAlways(resp) == resp.status # 200

\* if resp.StatusCode == 429 { ...; continue }
Retry(resp) == resp.status = 429

\* the text of each error DoGetWithRetry gives
ErrCreate(u) == <<"failed to create request: parse ">> \o u \o <<": net/url: invalid control character in URL">>
ErrRequest(u) == <<"request error: Get ">> \o u \o <<": dial tcp: connection refused">>
ErrNotFound == <<"resource not found (", "4", "0", "4", ")">>
ErrStatus(resp) == <<"unexpected status ">> \o SprintfDigits(resp.status) \o <<": ">> \o resp.body
ErrRead == <<"error reading response: unexpected EOF">>
ErrRetries(u) == <<"exceeded retries for GET ">> \o u

\* a return that hands out what was read of a body whose read failed
ReturnForPartial(resp, u) ==
    IF resp.transport THEN Returned(NoBody, ErrRequest(u))
    ELSE IF resp.status = 404 THEN Returned(NoBody, ErrNotFound)
    ELSE IF resp.status # 200 THEN Returned(NoBody, ErrStatus(resp))
    ELSE Returned(resp.body, NoError)

\* what the loop body returns for a response that is not tried again
ReturnFor(resp, u) ==
    IF resp.transport THEN Returned(NoBody, ErrRequest(u))
    ELSE IF resp.status = 404 THEN Returned(NoBody, ErrNotFound)
    ELSE IF resp.status # 200 THEN Returned(NoBody, ErrStatus(resp))
    ELSE IF resp.readErr THEN Returned(NoBody, ErrRead)
    ELSE Returned(resp.body, NoError)

\* for attempt := 1; attempt <= 5; attempt++
MaxAttempts == 5

\* http.NewRequest fails: the call returns before any request
GetBadRequest ==
    /\ pc = "get"
    /\ attempt <= MaxAttempts
    /\ ~NewRequestOk(getURL)
    /\ ret' = Returned(NoBody, ErrCreate(getURL))
    /\ pc' = "got"
    /\ UNCHANGED <<getURL, attempt, responses>>

\* one pass of the loop body: the request is sent and the outcome handled
GetAttempt(resp) ==
    /\ pc = "get"
    /\ attempt <= MaxAttempts
    /\ NewRequestOk(getURL)
    /\ responses' = Append(responses, resp)
    /\ IF ~resp.transport /\ Retry(resp)
       THEN /\ attempt' = attempt + 1
            /\ UNCHANGED <<pc, ret>>
       ELSE /\ ret' = ReturnFor(resp, getURL)
            /\ pc' = "got"
            /\ UNCHANGED attempt
    /\ UNCHANGED getURL

\* the loop is over: return nil, fmt.Errorf("exceeded retries for GET %s", url)
GetExhausted ==
    /\ pc = "get"
    /\ attempt > MaxAttempts
    /\ ret' = Returned(NoBody, ErrRetries(getURL))
    /\ pc' = "got"
    /\ UNCHANGED <<getURL, attempt, responses>>

\* the steps of DoGetWithRetry
GetStep ==
    \/ GetBadRequest
    \/ \E resp \in ResponseSet : GetAttempt(resp)
    \/ GetExhausted

\* the issue keys of the calls: two plain ones, one whose number is 403, one
\* with a control character
PlainKey(n) == <<"A", "-">> \o SprintfDigits(n)
BadKey == <<"A", "-", ControlChar>>
GetKeys == { PlainKey(1), PlainKey(2), PlainKey(403), BadKey }

InitGet ==
    /\ pc = "get"
    /\ TrackerIdle
    /\ LoopIdle
    /\ SortIdle
    /\ UpdaterIdle
    /\ QueryIdle
    /\ getURL \in { IssueURL(k) : k \in GetKeys }
    /\ attempt = 1
    /\ responses = <<>>
    /\ ret = Nil

\* a call on its own touches nothing else
GetFrame == UNCHANGED <<trackerData, notGet>>

NextGet ==
    \/ GetBadRequest /\ GetFrame
    \/ \E resp \in ResponseSet : GetAttempt(resp) /\ GetFrame
    \/ GetExhausted /\ GetFrame

\* the call is sequential code and every request gets an outcome
SpecGet == InitGet /\ [][NextGet]_vars /\ WF_vars(NextGet)

\* the response is one with the status 429
RateLimited(resp) == ~resp.transport /\ resp.status = 429

\* the last outcome of the call so far
LastResponse == responses[Len(responses)]

\* C33: a call has at most five outcomes of requests, all but the last of
\* them responses with status 429; a request is sent only inside the call,
\* as the first one or after a response with status 429, and never after
\* the call has returned.
C33_RetryOnlyAfter429 ==
    /\ [](pc \in {"get", "got"}
          => /\ Len(responses) <= 5
             /\ \A i \in 1 .. Len(responses) - 1 : RateLimited(responses[i]))
    /\ [][Len(responses') > Len(responses)
          => /\ pc = "get"
             /\ Len(responses') = Len(responses) + 1
             /\ responses = <<>> \/ RateLimited(LastResponse)]_vars

\* the call has returned after five responses with status 429
C33_Witness ==
    /\ pc = "got"
    /\ Len(responses) = 5
    /\ \A i \in 1 .. 5 : RateLimited(responses[i])
    /\ ret.body = NoBody

\* C34: a call returns; it returns a body and no error when its last request
\* got a response with status 200 whose body could be read, and that body it
\* is; in every other case, with a url no request can be made of as well, it
\* returns an error and no body.
C34_BodyOnlyOn200 ==
    /\ <>(pc = "got")
    /\ [](pc = "got"
          => LET ok == /\ responses # <<>>
                       /\ ~LastResponse.transport
                       /\ LastResponse.status = 200
                       /\ ~LastResponse.readErr
             IN /\ ok => (ret.body = LastResponse.body /\ ret.err = NoError)
                /\ ~ok => (ret.body = NoBody /\ ret.err # NoError))

\* the call has returned the body of a response with status 200 that came
\* after two responses with status 429
C34_Witness ==
    /\ pc = "got"
    /\ Len(responses) = 3
    /\ LastResponse.status = 200
    /\ ret.body = IssueBody /\ ret.err = NoError

----------------------------------------------------------------------------
(* The updater: main of the issue fetcher, with FetchAndSaveIssueWithChangelog *)

\* runs of the updater, and the highest issue number of the project
MaxRuns == 2
MaxNumber == 1

\* a file of the output directory
File(k, ext) == [key |-> k, ext |-> ext]

\* the project of the runs, in upper case, with the "-"
ProjectPrefix == <<"A", "-">>

\* strings.Contains(err.Error(), "403")
Contains403(text) ==
    \E i \in 1 .. Len(text) - 2 :
        text[i] = "4" /\ text[i + 1] = "0" /\ text[i + 2] = "3"

\* if strings.Contains(err.Error(), "403") { os.WriteFile(deniedFile, ...) }
MarksDenied(text) == Contains403(text)

\* the rest of a file name after the prefix, its ".json" or ".denied" taken
\* away
NumStr(f) ==
    LET rest == SubSeq(f.key, Len(ProjectPrefix) + 1, Len(f.key)) IN
    IF f.ext = "changelog.json" THEN rest \o <<".changelog">> ELSE rest

\* numbers taken from the issue files only
GetProjectNumbersFetched(files) ==
    { Atoi(NumStr(f)) :
        f \in { g \in files :
                  /\ g.ext = "json"
                  /\ Len(g.key) >= Len(ProjectPrefix)
                  /\ SubSeq(g.key, 1, Len(ProjectPrefix)) = ProjectPrefix
                  /\ AtoiOk(NumStr(g)) } }

\* jira.GetProjectNumbersOnDisk: the numbers of the files with the project's
\* prefix that end in ".json" or ".denied"
GetProjectNumbersOnDisk(files) ==
    { Atoi(NumStr(f)) :
        f \in { g \in files :
                  /\ Len(g.key) >= Len(ProjectPrefix)
                  /\ SubSeq(g.key, 1, Len(ProjectPrefix)) = ProjectPrefix
                  /\ AtoiOk(NumStr(g)) } }

\* the errors of FetchAndSaveIssueWithChangelog after the request
ErrParse == <<"parse json: invalid character '<' looking for beginning of value">>
ErrWrite(what, k, ext) ==
    <<"write ", what, ": open issues/">> \o k \o <<".", ext, ": permission denied">>

\* the files a write may fail for
WriteFaults == {"none", "changelog", "issue"}

\* FetchAndSaveIssueWithChangelog from the return of DoGetWithRetry on: the
\* error it returns and the files of the directory after it
Save(r, k, files, fault) ==
    IF r.err # NoError THEN [err |-> <<"fetch failed: ">> \o r.err, disk |-> files]
    ELSE IF r.body = BrokenBody THEN [err |-> ErrParse, disk |-> files]
    ELSE IF r.body = IssueBody /\ fault = "changelog"
         THEN [err |-> ErrWrite("changelog", k, "changelog.json"), disk |-> files]
    ELSE LET withLog == IF r.body = IssueBody
                        THEN files \cup {File(k, "changelog.json")}
                        ELSE files
         IN IF fault = "issue"
            THEN [err |-> ErrWrite("issue", k, "json"), disk |-> withLog]
            ELSE [err |-> NoError, disk |-> withLog \cup {File(k, "json")}]

\* what the search for updated issues may return
UpdatedKeys == { PlainKey(1), PlainKey(403) }
UpdatedLists == UNION { [1 .. n -> UpdatedKeys] : n \in 0 .. 2 }

\* the keys GetIssuesInSprint may return
SprintLists == UNION { [1 .. n -> UpdatedKeys] : n \in 0 .. 1 }

\* jira.GetAllProjectIssueKeys: the keys of the files with the project's
\* prefix that end in ".json" and not in ".changelog.json"
GetAllProjectIssueKeys(files) ==
    { f.key : f \in { g \in files :
                        /\ g.ext = "json"
                        /\ Len(g.key) >= Len(ProjectPrefix)
                        /\ SubSeq(g.key, 1, Len(ProjectPrefix)) = ProjectPrefix } }

\* getNumber of the smart update: the number after the "-" of a key with one
\* "-", 0 for any other key
getNumber(k) ==
    IF Cardinality({ i \in 1 .. Len(k) : k[i] = "-" }) # 1 THEN 0
    ELSE IF ~AtoiOk(CutAfter(k)) THEN 0
    ELSE Atoi(CutAfter(k))

\* the orders sort.Slice can leave the stale keys in: by falling number
StaleOrders(keys) ==
    { list \in [1 .. Cardinality(keys) -> keys] :
        /\ \A k \in keys : \E i \in DOMAIN list : list[i] = k
        /\ \A i, j \in DOMAIN list :
               i < j => getNumber(list[i]) >= getNumber(list[j]) }

\* the keys an issue file can be there for, and the lists of stale keys
DiskKeys == UpdatedKeys \cup { PlainKey(n) : n \in 1 .. MaxNumber }
StaleLists == UNION { StaleOrders(keys) : keys \in SUBSET DiskKeys }

\* the flags and the lists of the blocks after the force loop
flags == <<smartUpdate, sprintUpdate, staleKeys, sprintIssues>>

\* the frame of the steps of main outside a call
MainFrame == UNCHANGED <<trackerData, notUpdater>>

InitUpdater ==
    /\ pc = "query"
    /\ TrackerIdle /\ LoopIdle /\ SortIdle /\ GetIdle /\ QueryIdle
    /\ disk = {}
    /\ runs = 1
    /\ forceUpdate \in BOOLEAN
    /\ smartUpdate \in BOOLEAN
    /\ sprintUpdate \in {<<>>, <<"S">>}
    /\ staleKeys = <<>>
    /\ sprintIssues = <<>>
    /\ updatedIssues = <<>>
    /\ idx = 0
    /\ maxNumber = 0
    /\ numbersOnDisk = {}
    /\ loopI = 0
    /\ fetchKey = <<>>
    /\ phase = ""

\* updatedIssues := jira.QueryUpdatedIssues(...)
QueryUpdated(list) ==
    /\ pc = "query"
    /\ updatedIssues' = list
    /\ idx' = 1
    /\ pc' = "updated"
    /\ UNCHANGED <<disk, runs, forceUpdate, flags, maxNumber, numbersOnDisk,
                   loopI, fetchKey, phase, getVars>>
    /\ MainFrame

\* the search fails: log.Fatalf inside QueryUpdatedIssues
QueryFatal ==
    /\ pc = "query"
    /\ pc' = "fatal"
    /\ UNCHANGED <<updaterVars, getVars>>
    /\ MainFrame

\* the call of FetchAndSaveIssueWithChangelog up to its first request
CallFetch(k, step) ==
    /\ fetchKey' = k
    /\ phase' = step
    /\ getURL' = IssueURL(k)
    /\ attempt' = 1
    /\ responses' = <<>>
    /\ ret' = Nil
    /\ pc' = "get"

\* the loop over updatedIssues: an issue with a denied marker is passed over
UpdatedSkip ==
    /\ pc = "updated"
    /\ idx <= Len(updatedIssues)
    /\ File(updatedIssues[idx], "denied") \in disk
    /\ idx' = idx + 1
    /\ UNCHANGED <<pc, disk, runs, forceUpdate, flags, updatedIssues, maxNumber,
                   numbersOnDisk, loopI, fetchKey, phase, getVars>>
    /\ MainFrame

\* the loop over updatedIssues: an issue without a marker is fetched
UpdatedFetch ==
    /\ pc = "updated"
    /\ idx <= Len(updatedIssues)
    /\ File(updatedIssues[idx], "denied") \notin disk
    /\ CallFetch(updatedIssues[idx], "updated")
    /\ UNCHANGED <<disk, runs, forceUpdate, flags, updatedIssues, idx, maxNumber,
                   numbersOnDisk, loopI>>
    /\ MainFrame

\* the loop over updatedIssues is over
UpdatedDone ==
    /\ pc = "updated"
    /\ idx > Len(updatedIssues)
    /\ pc' = "highest"
    /\ UNCHANGED <<updaterVars, getVars>>
    /\ MainFrame

\* a request of the call under way
FetchRequest ==
    /\ GetStep
    /\ UNCHANGED updaterVars
    /\ MainFrame

\* the call returns to main: the files are written; in the loop over the
\* updated issues, the backfill loop and the force loop an error that holds
\* "403" leaves a marker (a failed write of the marker goes unnoticed), in
\* the smart update and the sprint update the error is dropped; the loop the
\* call came from goes on
FetchReturn(fault, markerFails) ==
    /\ pc = "got"
    /\ LET saved == Save(ret, fetchKey, disk, fault) IN
         disk' = IF /\ phase \in {"updated", "backfill", "force"}
                    /\ saved.err # NoError /\ MarksDenied(saved.err) /\ ~markerFails
                 THEN saved.disk \cup {File(fetchKey, "denied")}
                 ELSE saved.disk
    /\ pc' = phase
    /\ idx' = IF phase \in {"updated", "smart", "sprint"} THEN idx + 1 ELSE idx
    /\ loopI' = IF phase \in {"backfill", "force"} THEN loopI - 1 ELSE loopI
    /\ fetchKey' = <<>>
    /\ phase' = ""
    /\ getURL' = <<>> /\ attempt' = 0 /\ responses' = <<>> /\ ret' = Nil
    /\ UNCHANGED <<runs, forceUpdate, flags, updatedIssues, maxNumber, numbersOnDisk>>
    /\ MainFrame

\* GetHighestIssueKey and extractIssueNumber, then GetProjectNumbersOnDisk
HighestKey(n) ==
    /\ pc = "highest"
    /\ maxNumber' = n
    /\ numbersOnDisk' = GetProjectNumbersOnDisk(disk)
    /\ loopI' = n
    /\ pc' = "backfill"
    /\ UNCHANGED <<disk, runs, forceUpdate, flags, updatedIssues, idx, fetchKey, phase,
                   getVars>>
    /\ MainFrame

\* the highest key cannot be had or has no number: log.Fatalf
HighestFatal ==
    /\ pc = "highest"
    /\ pc' = "fatal"
    /\ UNCHANGED <<updaterVars, getVars>>
    /\ MainFrame

\* the backfill loop: a number on disk is passed over
BackfillSkip ==
    /\ pc = "backfill"
    /\ loopI >= 1
    /\ loopI \in numbersOnDisk
    /\ loopI' = loopI - 1
    /\ UNCHANGED <<pc, disk, runs, forceUpdate, flags, updatedIssues, idx, maxNumber,
                   numbersOnDisk, fetchKey, phase, getVars>>
    /\ MainFrame

\* the backfill loop: a number not on disk is fetched
BackfillFetch ==
    /\ pc = "backfill"
    /\ loopI >= 1
    /\ loopI \notin numbersOnDisk
    /\ CallFetch(PlainKey(loopI), "backfill")
    /\ UNCHANGED <<disk, runs, forceUpdate, flags, updatedIssues, idx, maxNumber,
                   numbersOnDisk, loopI>>
    /\ MainFrame

\* the backfill loop is over: the force loop starts when the flag is set
BackfillDone ==
    /\ pc = "backfill"
    /\ loopI < 1
    /\ pc' = IF forceUpdate THEN "force" ELSE "ifSmart"
    /\ loopI' = IF forceUpdate THEN maxNumber ELSE loopI
    /\ UNCHANGED <<disk, runs, forceUpdate, flags, updatedIssues, idx, maxNumber,
                   numbersOnDisk, fetchKey, phase, getVars>>
    /\ MainFrame

\* the force loop fetches every number
ForceFetch ==
    /\ pc = "force"
    /\ loopI >= 1
    /\ CallFetch(PlainKey(loopI), "force")
    /\ UNCHANGED <<disk, runs, forceUpdate, flags, updatedIssues, idx, maxNumber,
                   numbersOnDisk, loopI>>
    /\ MainFrame

\* the force loop is over
ForceDone ==
    /\ pc = "force"
    /\ loopI < 1
    /\ pc' = "ifSmart"
    /\ UNCHANGED <<updaterVars, getVars>>
    /\ MainFrame

\* if *smartUpdate: the issue keys of the directory, those of them that
\* FilterRecentlyFetchedIssues keeps (which ones depends on the times in the
\* files and on the clock), sorted by falling number
SmartKeys(list) ==
    /\ pc = "ifSmart"
    /\ smartUpdate
    /\ { list[i] : i \in DOMAIN list } \subseteq GetAllProjectIssueKeys(disk)
    /\ staleKeys' = list
    /\ idx' = 1
    /\ pc' = "smart"
    /\ UNCHANGED <<disk, runs, forceUpdate, smartUpdate, sprintUpdate,
                   sprintIssues, updatedIssues, maxNumber, numbersOnDisk,
                   loopI, fetchKey, phase, getVars>>
    /\ MainFrame

\* the loop over staleKeys: every key is fetched, whatever markers there are
SmartFetch ==
    /\ pc = "smart"
    /\ idx <= Len(staleKeys)
    /\ CallFetch(staleKeys[idx], "smart")
    /\ UNCHANGED <<disk, runs, forceUpdate, flags, updatedIssues, idx, maxNumber,
                   numbersOnDisk, loopI>>
    /\ MainFrame

\* the flag is not set, or the loop over staleKeys is over
SmartDone ==
    /\ \/ pc = "ifSmart" /\ ~smartUpdate
       \/ pc = "smart" /\ idx > Len(staleKeys)
    /\ pc' = "ifSprint"
    /\ UNCHANGED <<updaterVars, getVars>>
    /\ MainFrame

\* if *sprintUpdate != "": sprintIssues, err := jira.GetIssuesInSprint(...)
SprintIssues(list) ==
    /\ pc = "ifSprint"
    /\ sprintUpdate # <<>>
    /\ sprintIssues' = list
    /\ idx' = 1
    /\ pc' = "sprint"
    /\ UNCHANGED <<disk, runs, forceUpdate, smartUpdate, sprintUpdate,
                   staleKeys, updatedIssues, maxNumber, numbersOnDisk,
                   loopI, fetchKey, phase, getVars>>
    /\ MainFrame

\* the sprint is not in the cache, or its search fails: log.Fatalf
SprintFatal ==
    /\ pc = "ifSprint"
    /\ sprintUpdate # <<>>
    /\ pc' = "fatal"
    /\ UNCHANGED <<updaterVars, getVars>>
    /\ MainFrame

\* the loop over sprintIssues: every issue is fetched, the error is dropped
SprintFetch ==
    /\ pc = "sprint"
    /\ idx <= Len(sprintIssues)
    /\ CallFetch(sprintIssues[idx], "sprint")
    /\ UNCHANGED <<disk, runs, forceUpdate, flags, updatedIssues, idx, maxNumber,
                   numbersOnDisk, loopI>>
    /\ MainFrame

\* the flag is not set, or the loop over sprintIssues is over: main returns
SprintDone ==
    /\ \/ pc = "ifSprint" /\ sprintUpdate = <<>>
       \/ pc = "sprint" /\ idx > Len(sprintIssues)
    /\ pc' = "exit"
    /\ UNCHANGED <<updaterVars, getVars>>
    /\ MainFrame

\* the updater is started again on the same directory
RunAgain(force, smart, sprint) ==
    /\ pc \in {"exit", "fatal"}
    /\ runs < MaxRuns
    /\ runs' = runs + 1
    /\ forceUpdate' = force
    /\ smartUpdate' = smart
    /\ sprintUpdate' = sprint
    /\ staleKeys' = <<>> /\ sprintIssues' = <<>>
    /\ pc' = "query"
    /\ updatedIssues' = <<>> /\ idx' = 0
    /\ maxNumber' = 0 /\ numbersOnDisk' = {} /\ loopI' = 0
    /\ UNCHANGED <<disk, fetchKey, phase, getVars>>
    /\ MainFrame

NextUpdater ==
    \/ \E list \in UpdatedLists : QueryUpdated(list)
    \/ QueryFatal
    \/ UpdatedSkip
    \/ UpdatedFetch
    \/ UpdatedDone
    \/ FetchRequest
    \/ \E fault \in WriteFaults, markerFails \in BOOLEAN : FetchReturn(fault, markerFails)
    \/ \E n \in 1 .. MaxNumber : HighestKey(n)
    \/ HighestFatal
    \/ BackfillSkip
    \/ BackfillFetch
    \/ BackfillDone
    \/ ForceFetch
    \/ ForceDone
    \/ \E list \in StaleLists : SmartKeys(list)
    \/ SmartFetch
    \/ SmartDone
    \/ \E list \in SprintLists : SprintIssues(list)
    \/ SprintFatal
    \/ SprintFetch
    \/ SprintDone
    \/ \E force, smart \in BOOLEAN, sprint \in {<<>>, <<"S">>} :
          RunAgain(force, smart, sprint)

SpecUpdater == InitUpdater /\ [][NextUpdater]_vars

\* the keys with a denied marker
Denied(files) == { f.key : f \in { g \in files : g.ext = "denied" } }

\* C35: a denied marker appears for a key only in the step in which the fetch
\* of that key returns to main, and only when the last response of that fetch
\* had the status 403.
C35_DeniedOnlyOn403 ==
    [][\A k \in Denied(disk') \ Denied(disk) :
          /\ pc = "got"
          /\ k = fetchKey
          /\ responses # <<>>
          /\ ~LastResponse.transport
          /\ LastResponse.status = 403]_vars

\* C36: a request for a key is sent from the loop over the updated issues or
\* from the backfill loop only when the key has no denied marker, in the run
\* that wrote the marker and in every run after it.
C36_DeniedNeverFetched ==
    [][(Len(responses') > Len(responses) /\ phase \in {"updated", "backfill"})
       => fetchKey \notin Denied(disk)]_vars

\* in the second run, without the force flag, the loop over the updated
\* issues has passed over the denied key A-1 and the backfill loop has too:
\* the run is over and there is still no issue file of A-1
C36_Witness ==
    /\ runs = 2 /\ ~forceUpdate /\ pc = "exit"
    /\ updatedIssues = << PlainKey(1) >>
    /\ maxNumber = 1
    /\ PlainKey(1) \in Denied(disk)
    /\ File(PlainKey(1), "json") \notin disk

\* C38: every issue file of the directory has its changelog file.
C38_IssueHasChangelog ==
    \A f \in disk : f.ext = "json" => File(f.key, "changelog.json") \in disk

----------------------------------------------------------------------------
(* QueryUpdatedIssues: the paged search for the issues updated since the
   newest cached one, cut short at the first issue the cache is level with *)

\* the most issues the search matches, and the most the server puts in a page
\* (the request asks for pageSize = 100; the server returns what it returns)
MaxHits == 3
MaxResults == 2

Min(a, b) == IF a < b THEN a ELSE b

\* the texts of an "updated" field: one in another layout and two instants
UpdatedTexts ==
    { [layout |-> "date-only", abs |-> 1, off |-> 0],
      [layout |-> "ms-offset", abs |-> 1, off |-> 0],
      [layout |-> "ms-offset", abs |-> 2, off |-> 0] }

\* the keys the search returns
SearchKeys == { PlainKey(1), PlainKey(2) }

\* one element of "issues" in the response of the search
SearchIssues == [Key : SearchKeys, Updated : UpdatedTexts]

\* issues/<key>.json as the search reads it: no file, a file that is not a
\* JSON object with a text at fields.updated, or the text at fields.updated
NoFile == [file |-> FALSE]
NoUpdated == [file |-> TRUE, updated |-> Nil]
DiskFiles ==
    {NoFile, NoUpdated} \cup { [file |-> TRUE, updated |-> u] : u \in UpdatedTexts }

\* UpdatedIssue{Key: issue.Key, UpdatedTime: searchUpdatedTime}
UpdatedIssue(issue) == [Key |-> issue.Key, UpdatedTime |-> ParseTime(issue.Updated)]

\* the cached issue is taken for level when it is strictly newer only
upToDateWhenNewer(issue, files) ==
    LET f == files[issue.Key]
    IN  /\ f.file
        /\ f.updated # Nil
        /\ ParseOk(f.updated)
        /\ After(ParseTime(f.updated), ParseTime(issue.Updated))

\* the nest of conditions around stopEarly = true: the file reads, holds a
\* text at fields.updated that parses, and the search's time is not after it
upToDate(issue, files) ==
    LET f == files[issue.Key]
    IN  /\ f.file
        /\ f.updated # Nil
        /\ ParseOk(f.updated)
        /\ ~After(ParseTime(issue.Updated), ParseTime(f.updated))

\* the page the server returns for startAt
SearchPage(from) == SubSeq(hits, from + 1, Min(from + MaxResults, Len(hits)))

InitQuery ==
    /\ pc = "search"
    /\ TrackerIdle /\ LoopIdle /\ SortIdle /\ GetIdle /\ UpdaterIdle
    /\ hits \in UNION { [1 .. n -> SearchIssues] : n \in 0 .. MaxHits }
    /\ total \in 0 .. MaxHits + 1
    /\ diskUpdated \in [SearchKeys -> DiskFiles]
    /\ startAt = 0
    /\ resultIssues = <<>>
    /\ issueIdx = 0
    /\ stopEarly = FALSE
    /\ results = <<>>

QueryFrame == UNCHANGED <<trackerData, notQuery, hits, total, diskUpdated>>

\* the request of a page and the decoding of its response
SearchRequest ==
    /\ pc = "search"
    /\ resultIssues' = SearchPage(startAt)
    /\ issueIdx' = 1
    /\ pc' = "scan"
    /\ UNCHANGED <<startAt, stopEarly, results>>
    /\ QueryFrame

\* DoGetWithRetry returns an error, or the body does not decode: log.Fatalf
SearchFatal ==
    /\ pc = "search"
    /\ pc' = "searchFatal"
    /\ UNCHANGED <<startAt, resultIssues, issueIdx, stopEarly, results>>
    /\ QueryFrame

\* one turn of the loop over result.Issues
ScanIssue ==
    /\ pc = "scan"
    /\ ~stopEarly
    /\ issueIdx <= Len(resultIssues)
    /\ LET issue == resultIssues[issueIdx]
       IN  IF ~ParseOk(issue.Updated)
           THEN /\ issueIdx' = issueIdx + 1
                /\ UNCHANGED <<stopEarly, results>>
           ELSE IF upToDate(issue, diskUpdated)
           THEN /\ stopEarly' = TRUE
                /\ UNCHANGED <<issueIdx, results>>
           ELSE /\ results' = Append(results, UpdatedIssue(issue))
                /\ issueIdx' = issueIdx + 1
                /\ UNCHANGED stopEarly
    /\ UNCHANGED <<pc, startAt, resultIssues>>
    /\ QueryFrame

\* after the loop over the page: the break on stopEarly, the advance of
\* startAt and the test that ends the paging
PageEnd ==
    /\ pc = "scan"
    /\ stopEarly \/ issueIdx > Len(resultIssues)
    /\ IF stopEarly
       THEN /\ pc' = "searched"
            /\ UNCHANGED startAt
       ELSE /\ startAt' = startAt + Len(resultIssues)
            /\ pc' = IF startAt' >= total \/ Len(resultIssues) = 0
                     THEN "searched" ELSE "search"
    /\ UNCHANGED <<resultIssues, issueIdx, stopEarly, results>>
    /\ QueryFrame

NextQuery ==
    \/ SearchRequest
    \/ SearchFatal
    \/ ScanIssue
    \/ PageEnd

SpecQuery == InitQuery /\ [][NextQuery]_vars

\* the issues of the search the scan has passed
Passed ==
    IF pc = "scan" \/ stopEarly THEN startAt + issueIdx - 1 ELSE startAt

\* the issues with a parsable updated time among the first n of the search
RECURSIVE ParsableIn(_)
ParsableIn(n) ==
    IF n = 0 THEN <<>>
    ELSE IF hits[n].Updated.layout = "ms-offset"
         THEN Append(ParsableIn(n - 1),
                     [Key |-> hits[n].Key,
                      UpdatedTime |-> [abs |-> hits[n].Updated.abs,
                                       off |-> hits[n].Updated.off]])
         ELSE ParsableIn(n - 1)

\* the cached file of the issue has an updated time, and it is not older than
\* the one the search reports
NotOlderOnDisk(issue) ==
    LET f == diskUpdated[issue.Key]
    IN  /\ issue.Updated.layout = "ms-offset"
        /\ f.file
        /\ f.updated # Nil
        /\ f.updated.layout = "ms-offset"
        /\ f.updated.abs >= issue.Updated.abs

\* C37: the scan takes the search results in order and stops at the first
\* issue whose cached updated time is not older than the search's: at every
\* moment the list holds exactly the issues with a parsable updated time
\* among those passed, in order, none of those passed is level with the
\* cache, and a stop is at an issue that is; the paging goes on only below
\* the reported total and after a page with issues, and without a stop the
\* search ends only at the total or after an empty page.
C37_StopsAtFirstUpToDate ==
    pc \in {"search", "scan", "searched"} =>
        /\ Passed \in 0 .. Len(hits)
        /\ results = ParsableIn(Passed)
        /\ \A i \in 1 .. Passed : ~NotOlderOnDisk(hits[i])
        /\ stopEarly => Passed < Len(hits) /\ NotOlderOnDisk(hits[Passed + 1])
        /\ (pc = "search" /\ startAt > 0) =>
               ~stopEarly /\ startAt < total /\ resultIssues # <<>>
        /\ (pc = "searched" /\ ~stopEarly) =>
               startAt >= total \/ resultIssues = <<>>

\* a search that stops in its second page, with one issue listed and one
\* passed over for its updated time
C37_Witness ==
    /\ pc = "searched"
    /\ stopEarly
    /\ startAt = MaxResults
    /\ Len(results) = 1
    /\ Passed = 2

====
